---------------------------- MODULE Spec2Model ----------------------------
(***************************************************************************)
(* Wall2CAD: the SAM worker thread (core/sam_worker.py), its processor     *)
(* (core/sam_processor.py) and the mask post-processor                     *)
(* (core/mask_processor.py), as state machines.                            *)
(*                                                                         *)
(* Spec      : the interactive thread calling load_sam_model,              *)
(*             run_segmentation and stop_processing on one SAMWorkerThread *)
(*             while the worker thread executes run().                     *)
(* SpecMasks : MaskProcessor.process_masks applied to bounded inputs.      *)
(***************************************************************************)
EXTENDS Integers, Sequences, FiniteSets, TLC

VARIABLES
    \* ---- SAMWorkerThread fields (sam_worker.py:30-45)
    current_task,     \* "None" | "load_model" | "segmentation"
    should_stop,      \* BOOLEAN
    model_path,       \* "" or a path
    model_type,       \* "vit_h" | "vit_b"
    input_image,      \* <<h, w>>, <<0, 0>> for None
    sam_params,       \* "{}" or a parameter set
    sam_processor,    \* the SAMProcessor the worker owns (NoProcessor for None)
    mutex,            \* holder of self.mutex: "free" | "ui"
    \* ---- environment
    sam_registry,     \* segment_anything imported (sam_model_registry is not None)
    \* ---- the worker thread: activations of run()
    pc,               \* [Acts -> label]: position of each activation ("idle": none)
    loc,              \* [Acts -> locals of the task body]
    \* ---- the interactive thread
    ui,               \* [pc, op, a, b, busy]: the request method being executed
    \* ---- observation of a run
    events,           \* signals emitted since the thread was last started
    run,              \* history of the current run (task body, reads, stop requests)
    \* ---- MaskProcessor (mask_processor.py)
    mp_in,            \* arguments of process_masks
    processed_masks,  \* self.processed_masks
    mp_pc,            \* "call" | "done"
    \* ---- MaskProcessor._fill_holes applied repeatedly
    fh_mask,          \* the uint8 grid handed to the next call
    fh_prev,          \* the grids handed to the calls made so far
    fh_calls,         \* number of calls made
    \* ---- MaskProcessor.extract_contours / simplify_contours
    cd_masks,         \* argument of extract_contours: [none, list]
    contour_data,     \* returned by extract_contours, handed to simplify_contours
    epsilon_factor,   \* argument of simplify_contours, in thousandths
    simplified_data,  \* returned by simplify_contours
    cd_pc,            \* "extract" | "simplify" | "done"
    \* ---- DXFExporter's helper functions, called on their own
    fn_call,          \* the call: [op, contour, scale_factor, image_height, area, prefix]
    fn_result,        \* its outcome: [done, raised, points, layer_name, color]
    \* ---- DXFExporter (dxf_exporter.py)
    doc,              \* self.doc: [none, serial, dxfversion, units, layers]
    msp,              \* the entities of self.msp, in the order they were added
    dxf_call,         \* the last call made on the exporter, with what it returned
    dxf_calls,        \* number of calls made
    disk,             \* the files written by save
    units_INCH,       \* the installed ezdxf.units defines INCH
    \* ---- DXFConverter.export_masks_to_dxf (wall2cad_mvp/dxf_converter.py)
    cv_masks,         \* the argument masks
    cv_layers,        \* doc.layers: the layer names, in order of creation
    cv_msp,           \* the polylines of the model space: [layer, points, mask]
    cv_out,           \* [pc, i, contour_count, saved]: position in the call
    \* ---- a caller running the core pipeline end to end
    pl_pc,            \* the next call it makes ("idle": no pipeline run)
    \* ---- the main window and its model-loading dialog (ui/main_window.py,
    \* ---- ui/progress_dialog.py)
    dlg,              \* self.progress_dialog: the ModelLoadingDialog, if any
    delivered,        \* number of the worker's signals the main window has handled
    mw,               \* MainWindow: current_model_info and the last handler run
    \* ---- the property panel and the model scanner (ui/property_panel.py,
    \* ---- utils/model_scanner.py)
    panel,            \* the model combo box and the parameter spin boxes
    scanner,          \* ModelScanner: discovered_models, and what was added
    \* ---- the threads of the MVP window (wall2cad_mvp/ui_main.py)
    mvp               \* [loader, worker, ...]: positions and emitted signals

vars == <<current_task, should_stop, model_path, model_type, input_image,
          sam_params, sam_processor, mutex, sam_registry, pc, loc, ui,
          events, run, mp_in, processed_masks, mp_pc,
          fh_mask, fh_prev, fh_calls,
          cd_masks, contour_data, epsilon_factor, simplified_data, cd_pc,
          fn_call, fn_result,
          doc, msp, dxf_call, dxf_calls, disk, units_INCH,
          cv_masks, cv_layers, cv_msp, cv_out, pl_pc,
          dlg, delivered, mw, panel, scanner, mvp>>

workerFields == <<current_task, should_stop, model_path, model_type,
                  input_image, sam_params>>
workerVars == <<current_task, should_stop, model_path, model_type, input_image,
                sam_params, sam_processor, mutex, sam_registry, pc, loc, ui,
                events, run>>
maskVars == <<mp_in, processed_masks, mp_pc>>
fillVars == <<fh_mask, fh_prev, fh_calls>>
contourVars == <<cd_masks, contour_data, epsilon_factor, simplified_data, cd_pc>>
\* everything outside the worker thread and process_masks
fnVars == <<fn_call, fn_result>>
dxfVars == <<doc, msp, dxf_call, dxf_calls, disk, units_INCH>>
converterVars == <<cv_masks, cv_layers, cv_msp, cv_out>>
uiVars == <<dlg, delivered, mw, panel, scanner, mvp>>
libVars == <<fillVars, contourVars, fnVars, dxfVars, converterVars, pl_pc, uiVars>>

(***************************************************************************)
(* Bounds and input domains                                                *)
(***************************************************************************)
MaxActs == 2          \* activation slots of run() the model can tell apart
Acts == 1..MaxActs

GoodPath == "sam_vit_h.pth"
MissingPath == "missing.pth"
Paths == {GoodPath, MissingPath}
Types == {"vit_h", "vit_b"}
NoImage == <<0, 0>>
ImgSmall == <<600, 800>>
ImgLarge == <<1536, 2048>>
Images == {ImgSmall, ImgLarge}
Params == {"p1"}

\* os.path.exists on the model file
PathExists(p) == p = GoodPath

NoProcessor == [made |-> FALSE, model_type |-> "", sam_model |-> FALSE,
                mask_generator |-> FALSE]
NoLocals == [success |-> FALSE, hw |-> NoImage, resized |-> NoImage,
             masks |-> <<>>]
NoCall == [pc |-> "idle", op |-> "none", a |-> "", b |-> "", img |-> NoImage,
           busy |-> FALSE]
NoRun == [task |-> "none", reads |-> {}, stopReq |-> FALSE, stopEarly |-> FALSE,
          polled |-> FALSE]

(***************************************************************************)
(* Signals                                                                 *)
(***************************************************************************)
Ev(sig, pct, ok) == [sig |-> sig, pct |-> pct, ok |-> ok]
IsStart(e) == e.sig \in {"model_load_started", "segmentation_started"}
IsProgress(e) == e.sig \in {"model_load_progress", "segmentation_progress"}
IsTerminal(e) == e.sig \in {"model_load_finished", "segmentation_finished"}

\* Positions of an activation of run(): "r99", "r101" in run() itself, then the
\* line of _run_model_loading (m...) or _run_segmentation (s...) it is about
\* to execute.
LoadBody == {"m113", "m115", "m119", "m120", "m121", "m124", "m128", "m129",
             "m131", "m135", "m136", "m140", "m144", "m147", "m149", "m153",
             "m156", "m159", "m164", "m170"}
SegBody == {"s175", "s177", "s181", "s185", "s188", "s189", "s198", "s202",
            "s205", "s210", "s214", "s216", "s218", "s226"}
Body == LoadBody \cup SegBody

\* QThread.isRunning(): from start() until run() has returned
isRunning == \E a \in Acts : pc[a] # "idle"
BodyActive == \E a \in Acts : pc[a] \in Body

(***************************************************************************)
(* Initial state: SAMWorkerThread.__init__                                 *)
(***************************************************************************)
WorkerInit ==
    /\ current_task = "None"
    /\ should_stop = FALSE
    /\ model_path = ""
    /\ model_type = "vit_h"
    /\ input_image = NoImage
    /\ sam_params = "{}"
    /\ sam_processor = NoProcessor
    /\ mutex = "free"
    /\ sam_registry \in BOOLEAN
    /\ pc = [a \in Acts |-> "idle"]
    /\ loc = [a \in Acts |-> NoLocals]
    /\ ui = NoCall
    /\ events = <<>>
    /\ run = NoRun

MaskIdle ==
    /\ mp_in = [masks |-> <<>>, smoothing |-> FALSE, noise_removal |-> FALSE,
                fill_holes |-> FALSE, min_area |-> 0]
    /\ processed_masks = <<>>
    /\ mp_pc = "done"

\* no call of _fill_holes, extract_contours or simplify_contours is under way
FillIdle ==
    /\ fh_mask = <<>>
    /\ fh_prev = <<>>
    /\ fh_calls = 0

ContoursIdle ==
    /\ cd_masks = [none |-> TRUE, list |-> <<>>]
    /\ contour_data = <<>>
    /\ epsilon_factor = 0
    /\ simplified_data = <<>>
    /\ cd_pc = "done"

FnIdle ==
    /\ fn_call = [op |-> "none", contour |-> [ndim |-> 2, pts |-> <<>>],
                  scale_factor |-> 1, image_height |-> [none |-> TRUE, v |-> 0],
                  area |-> 0, prefix |-> ""]
    /\ fn_result = [done |-> TRUE, raised |-> FALSE, points |-> <<>>,
                    layer_name |-> "", color |-> 0]

\* DXFExporter.__init__: no document; no call made yet
NoDoc == [none |-> TRUE, serial |-> 0, dxfversion |-> "", units |-> 0,
          layers |-> <<>>]
NoStats == [empty |-> TRUE, total_entities |-> 0, polylines |-> 0, images |-> 0,
            texts |-> 0, layers |-> 0, dxfversion |-> "", units |-> 0]
NoDxfCall == [op |-> "none", ok |-> FALSE, count |-> 0, stats |-> NoStats,
              arg |-> <<>>, contour_data |-> <<>>,
              before |-> [doc |-> NoDoc, msp |-> <<>>]]
DxfInit ==
    /\ doc = NoDoc
    /\ msp = <<>>
    /\ dxf_call = NoDxfCall
    /\ dxf_calls = 0
    /\ disk = {}
DxfIdle == DxfInit /\ units_INCH = FALSE

\* no export_masks_to_dxf call is under way
ConverterIdle ==
    /\ cv_masks = <<>>
    /\ cv_layers = <<>>
    /\ cv_msp = <<>>
    /\ cv_out = [pc |-> "idle", i |-> 0, contour_count |-> 0, saved |-> FALSE]

PipelineIdle == pl_pc = "idle"

\* no window, panel, scanner or MVP thread has been made
NoDialog == [exists |-> FALSE, visible |-> FALSE, cancelled |-> FALSE, value |-> 0,
             completed |-> FALSE, success |-> FALSE, btn_enabled |-> FALSE,
             btn_slot |-> "none", emitted |-> 0, late |-> FALSE]
Unmade == [made |-> FALSE]
DialogIdle == dlg = NoDialog /\ delivered = 0
WindowIdle == mw = Unmade
PanelIdle == panel = Unmade
ScannerIdle == scanner = Unmade
MvpIdle == mvp = Unmade
UiIdle == DialogIdle /\ WindowIdle /\ PanelIdle /\ ScannerIdle /\ MvpIdle

LibIdle ==
    /\ FillIdle /\ ContoursIdle /\ FnIdle /\ DxfIdle /\ ConverterIdle
    /\ PipelineIdle /\ UiIdle

Init == WorkerInit /\ MaskIdle /\ LibIdle

(***************************************************************************)
(* The interactive thread: load_sam_model, run_segmentation,               *)
(* stop_processing.  Each statement is a step: the worker thread takes no  *)
(* lock, so its steps interleave with the statements of a request method.  *)
(***************************************************************************)
UiStep(next) == ui' = [ui EXCEPT !.pc = next]

\* if not self.isRunning(): self.start()
\* start() begins an activation of run(); the signals and the history of the
\* run are observed from there.
StartThread_NoGuard ==
    IF \E a \in Acts : pc[a] = "idle"
    THEN LET a == CHOOSE x \in Acts : pc[x] = "idle" /\ \A y \in Acts : pc[y] = "idle" => x <= y
         IN /\ pc' = [pc EXCEPT ![a] = "r99"]
            /\ loc' = [loc EXCEPT ![a] = NoLocals]
            /\ events' = <<>>
            /\ run' = NoRun
    ELSE UNCHANGED <<pc, loc, events, run>>

StartThread ==
    IF ~isRunning
    THEN LET a == CHOOSE x \in Acts : \A y \in Acts : x <= y
         IN /\ pc' = [pc EXCEPT ![a] = "r99"]
            /\ loc' = [loc EXCEPT ![a] = NoLocals]
            /\ events' = <<>>
            /\ run' = NoRun
    ELSE UNCHANGED <<pc, loc, events, run>>

UI_LoadLock ==
    /\ ui.pc = "idle" /\ mutex = "free"
    /\ \E p \in Paths, t \in Types :
          ui' = [pc |-> "L57", op |-> "load_sam_model", a |-> p, b |-> t,
                 img |-> NoImage, busy |-> BodyActive]
    /\ mutex' = "ui"
    /\ UNCHANGED <<maskVars, libVars, workerFields, sam_processor, sam_registry, pc, loc, events, run>>

UI_Load57 ==
    /\ ui.pc = "L57"
    /\ current_task' = "load_model"
    /\ UiStep("L58")
    /\ UNCHANGED <<maskVars, libVars, should_stop, model_path, model_type, input_image, sam_params,
                   sam_processor, mutex, sam_registry, pc, loc, events, run>>

UI_Load58 ==
    /\ ui.pc = "L58"
    /\ model_path' = ui.a
    /\ UiStep("L59")
    /\ UNCHANGED <<maskVars, libVars, current_task, should_stop, model_type, input_image, sam_params,
                   sam_processor, mutex, sam_registry, pc, loc, events, run>>

UI_Load59 ==
    /\ ui.pc = "L59"
    /\ model_type' = ui.b
    /\ UiStep("L60")
    /\ UNCHANGED <<maskVars, libVars, current_task, should_stop, model_path, input_image, sam_params,
                   sam_processor, mutex, sam_registry, pc, loc, events, run>>

UI_Load60 ==
    /\ ui.pc = "L60"
    /\ should_stop' = FALSE
    /\ UiStep("L62")
    /\ UNCHANGED <<maskVars, libVars, current_task, model_path, model_type, input_image, sam_params,
                   sam_processor, mutex, sam_registry, pc, loc, events, run>>

UI_Load62 ==
    /\ ui.pc = "L62"
    /\ StartThread
    /\ UiStep("L65")
    /\ UNCHANGED <<maskVars, libVars, workerFields, sam_processor, mutex, sam_registry>>

UI_SegLock ==
    /\ ui.pc = "idle" /\ mutex = "free"
    /\ \E im \in Images, ps \in Params :
          ui' = [pc |-> "G77", op |-> "run_segmentation", a |-> ps, b |-> "",
                 img |-> im, busy |-> BodyActive]
    /\ mutex' = "ui"
    /\ UNCHANGED <<maskVars, libVars, workerFields, sam_processor, sam_registry, pc, loc, events, run>>

UI_Seg77 ==
    /\ ui.pc = "G77"
    /\ current_task' = "segmentation"
    /\ UiStep("G78")
    /\ UNCHANGED <<maskVars, libVars, should_stop, model_path, model_type, input_image, sam_params,
                   sam_processor, mutex, sam_registry, pc, loc, events, run>>

UI_Seg78 ==
    /\ ui.pc = "G78"
    /\ input_image' = ui.img
    /\ UiStep("G79")
    /\ UNCHANGED <<maskVars, libVars, current_task, should_stop, model_path, model_type, sam_params,
                   sam_processor, mutex, sam_registry, pc, loc, events, run>>

UI_Seg79 ==
    /\ ui.pc = "G79"
    /\ sam_params' = ui.a
    /\ UiStep("G80")
    /\ UNCHANGED <<maskVars, libVars, current_task, should_stop, model_path, model_type, input_image,
                   sam_processor, mutex, sam_registry, pc, loc, events, run>>

UI_Seg80 ==
    /\ ui.pc = "G80"
    /\ should_stop' = FALSE
    /\ UiStep("G82")
    /\ UNCHANGED <<maskVars, libVars, current_task, model_path, model_type, input_image, sam_params,
                   sam_processor, mutex, sam_registry, pc, loc, events, run>>

UI_Seg82 ==
    /\ ui.pc = "G82"
    /\ StartThread
    /\ UiStep("G85")
    /\ UNCHANGED <<maskVars, libVars, workerFields, sam_processor, mutex, sam_registry>>

NoProgressYet == \A i \in 1..Len(events) : ~IsProgress(events[i])

UI_StopLock ==
    /\ ui.pc = "idle" /\ mutex = "free"
    /\ ui' = [pc |-> "S91", op |-> "stop_processing", a |-> "", b |-> "",
              img |-> NoImage, busy |-> BodyActive]
    /\ mutex' = "ui"
    /\ UNCHANGED <<maskVars, libVars, workerFields, sam_processor, sam_registry, pc, loc, events, run>>

UI_Stop91 ==
    /\ ui.pc = "S91"
    /\ should_stop' = TRUE
    /\ run' = [run EXCEPT !.stopReq = @ \/ BodyActive,
                          !.stopEarly = @ \/ (isRunning /\ NoProgressYet)]
    /\ UiStep("S92")
    /\ UNCHANGED <<maskVars, libVars, current_task, model_path, model_type, input_image, sam_params,
                   sam_processor, mutex, sam_registry, pc, loc, events>>

UI_Stop92 ==
    /\ ui.pc = "S92"
    /\ current_task' = "None"
    /\ UiStep("S94")
    /\ UNCHANGED <<maskVars, libVars, should_stop, model_path, model_type, input_image, sam_params,
                   sam_processor, mutex, sam_registry, pc, loc, events, run>>

\* finally: self.mutex.unlock(), and the method returns
UI_Unlock ==
    /\ ui.pc \in {"L65", "G85", "S94"}
    /\ mutex' = "free"
    /\ ui' = NoCall
    /\ UNCHANGED <<maskVars, libVars, workerFields, sam_processor, sam_registry, pc, loc, events, run>>

(***************************************************************************)
(* The worker thread: run(), _run_model_loading, _run_segmentation.        *)
(* No step takes self.mutex.                                               *)
(***************************************************************************)
Goto(a, next) == pc' = [pc EXCEPT ![a] = next]
Emit(e) == events' = Append(events, e)
Read(field, value) == run' = [run EXCEPT !.reads = @ \cup {<<field, value>>}]

\* run(), line 99: if self.current_task == "load_model"
Run99(a) ==
    /\ pc[a] = "r99"
    /\ IF current_task = "load_model"
       THEN Goto(a, "m113") /\ run' = [run EXCEPT !.task = "load_model"]
       ELSE Goto(a, "r101") /\ UNCHANGED run
    /\ UNCHANGED <<maskVars, libVars, workerFields, sam_processor, mutex, sam_registry, loc, ui, events>>

\* run(), line 101: elif self.current_task == "segmentation"; else run() returns
Run101(a) ==
    /\ pc[a] = "r101"
    /\ IF current_task = "segmentation"
       THEN Goto(a, "s175") /\ run' = [run EXCEPT !.task = "segmentation"]
       ELSE Goto(a, "idle") /\ UNCHANGED run
    /\ UNCHANGED <<maskVars, libVars, workerFields, sam_processor, mutex, sam_registry, loc, ui, events>>

\* self.model_load_started.emit() / self.segmentation_started.emit()
StartedSignal(p) ==
    IF p = "m113" THEN "model_load_started" ELSE "segmentation_started"
StartedNext(p) == IF p = "m113" THEN "m115" ELSE "s177"

EmitStarted_ProgressFirst(a) ==
    /\ pc[a] \in {"m113", "s175"}
    /\ events' = events \o <<Ev(IF pc[a] = "m113" THEN "model_load_progress"
                                 ELSE "segmentation_progress", 10, FALSE),
                             Ev(StartedSignal(pc[a]), 0, FALSE)>>
    /\ Goto(a, StartedNext(pc[a]))
    /\ UNCHANGED <<maskVars, libVars, workerFields, sam_processor, mutex, sam_registry, loc, ui, run>>

EmitStarted(a) ==
    /\ pc[a] \in {"m113", "s175"}
    /\ Emit(Ev(StartedSignal(pc[a]), 0, FALSE))
    /\ Goto(a, StartedNext(pc[a]))
    /\ UNCHANGED <<maskVars, libVars, workerFields, sam_processor, mutex, sam_registry, loc, ui, run>>

\* if self.should_stop: return
PollPcs == {"m115", "m124", "m131", "m140", "m149", "s181", "s198", "s210"}
AfterPoll(p, locals) ==
    CASE p = "m115" -> "m119"
      [] p = "m124" -> "m128"
      [] p = "m131" -> "m135"
      [] p = "m140" -> "m144"
      [] p = "m149" -> (IF locals.success THEN "m153" ELSE "m164")
      [] p = "s181" -> "s185"
      [] p = "s198" -> "s202"
      [] p = "s210" -> "s214"

Poll(a) ==
    /\ pc[a] \in PollPcs
    /\ Goto(a, IF should_stop THEN "idle" ELSE AfterPoll(pc[a], loc[a]))
    /\ run' = [run EXCEPT !.polled = @ \/ run.stopReq]
    /\ UNCHANGED <<maskVars, libVars, workerFields, sam_processor, mutex, sam_registry, loc, ui, events>>

\* self.model_load_progress.emit(n, ...) / self.segmentation_progress.emit(n, ...)
ProgressPcs == {"m119", "m128", "m135", "m144", "m153", "m156", "s185", "s202", "s214"}
ProgressPct_Swapped(p) ==
    CASE p = "m119" -> 10
      [] p = "m128" -> 20
      [] p = "m135" -> 30
      [] p = "m144" -> 40
      [] p = "m153" -> 100
      [] p = "m156" -> 90
      [] p = "s185" -> 10
      [] p = "s202" -> 30
      [] p = "s214" -> 90

ProgressPct(p) ==
    CASE p = "m119" -> 10
      [] p = "m128" -> 20
      [] p = "m135" -> 30
      [] p = "m144" -> 40
      [] p = "m153" -> 90
      [] p = "m156" -> 100
      [] p = "s185" -> 10
      [] p = "s202" -> 30
      [] p = "s214" -> 90

AfterProgress(p) ==
    CASE p = "m119" -> "m120"
      [] p = "m128" -> "m129"
      [] p = "m135" -> "m136"
      [] p = "m144" -> "m147"
      [] p = "m153" -> "m156"
      [] p = "m156" -> "m159"
      [] p = "s185" -> "s188"
      [] p = "s202" -> "s205"
      [] p = "s214" -> "s216"

EmitProgress(a) ==
    /\ pc[a] \in ProgressPcs
    /\ Emit(Ev(IF pc[a] \in LoadBody THEN "model_load_progress"
               ELSE "segmentation_progress", ProgressPct(pc[a]), FALSE))
    /\ Goto(a, AfterProgress(pc[a]))
    /\ UNCHANGED <<maskVars, libVars, workerFields, sam_processor, mutex, sam_registry, loc, ui, run>>

\* line 120: if not os.path.exists(self.model_path)
M_CheckFile(a) ==
    /\ pc[a] = "m120"
    /\ Read("model_path", model_path)
    /\ Goto(a, IF PathExists(model_path) THEN "m124" ELSE "m121")
    /\ UNCHANGED <<maskVars, libVars, workerFields, sam_processor, mutex, sam_registry, loc, ui, events>>

\* line 121: model_load_finished.emit(False, f"...{self.model_path}"); return
M_FileMissing(a) ==
    /\ pc[a] = "m121"
    /\ Read("model_path", model_path)
    /\ Emit(Ev("model_load_finished", 0, FALSE))
    /\ Goto(a, "idle")
    /\ UNCHANGED <<maskVars, libVars, workerFields, sam_processor, mutex, sam_registry, loc, ui>>

\* line 129: self.sam_processor = SAMProcessor(self.model_type); the constructor
\* asks torch for the device and may raise
M_NewProcessor(a) ==
    /\ pc[a] = "m129"
    /\ Read("model_type", model_type)
    /\ \/ /\ sam_processor' = [made |-> TRUE, model_type |-> model_type,
                               sam_model |-> FALSE, mask_generator |-> FALSE]
          /\ Goto(a, "m131")
       \/ /\ UNCHANGED sam_processor
          /\ Goto(a, "m170")
    /\ UNCHANGED <<maskVars, libVars, workerFields, mutex, sam_registry, loc, ui, events>>

\* SAMProcessor._check_dependencies
CheckDependencies == sam_registry

\* lines 136-138: if not self.sam_processor._check_dependencies(): emit failure
M_CheckDeps(a) ==
    /\ pc[a] = "m136"
    /\ IF CheckDependencies
       THEN Goto(a, "m140") /\ UNCHANGED events
       ELSE Emit(Ev("model_load_finished", 0, FALSE)) /\ Goto(a, "idle")
    /\ UNCHANGED <<maskVars, libVars, workerFields, sam_processor, mutex, sam_registry, loc, ui, run>>

\* SAMProcessor.load_model(checkpoint_path): the pairs <<processor after, result>>.
\* The registry may be absent, the checkpoint missing; construction may raise
\* before self.sam_model is assigned (line 91) or after it (lines 94-111).
LoadModelOutcomes(proc, path) ==
    IF ~sam_registry \/ ~PathExists(path)
    THEN {<<proc, FALSE>>}
    ELSE {<<[proc EXCEPT !.sam_model = TRUE, !.mask_generator = TRUE], TRUE>>,
          <<proc, FALSE>>,
          <<[proc EXCEPT !.sam_model = TRUE], FALSE>>}

\* line 147: success = self.sam_processor.load_model(self.model_path)
M_LoadModel(a) ==
    /\ pc[a] = "m147"
    /\ Read("model_path", model_path)
    /\ \E o \in LoadModelOutcomes(sam_processor, model_path) :
          /\ sam_processor' = o[1]
          /\ loc' = [loc EXCEPT ![a].success = o[2]]
    /\ Goto(a, "m149")
    /\ UNCHANGED <<maskVars, libVars, workerFields, mutex, sam_registry, ui, events>>

\* lines 159-162: get_device_info() (asks torch, may raise), then
\* model_load_finished.emit(True, ...)
M_Finish(a) ==
    /\ pc[a] = "m159"
    /\ \/ Emit(Ev("model_load_finished", 0, TRUE)) /\ Goto(a, "idle")
       \/ UNCHANGED events /\ Goto(a, "m170")
    /\ UNCHANGED <<maskVars, libVars, workerFields, sam_processor, mutex, sam_registry, loc, ui, run>>

\* line 164 (load failed) and line 170 (except Exception):
\* model_load_finished.emit(False, ...)
M_Failed(a) ==
    /\ pc[a] \in {"m164", "m170"}
    /\ Emit(Ev("model_load_finished", 0, FALSE))
    /\ Goto(a, "idle")
    /\ UNCHANGED <<maskVars, libVars, workerFields, sam_processor, mutex, sam_registry, loc, ui, run>>

\* lines 177-179: if not self.sam_processor or not self.sam_processor.is_loaded()
\* (SAMProcessor.is_loaded: self.sam_model is not None)
is_loaded(proc) == proc.made /\ proc.sam_model

S_CheckLoaded(a) ==
    /\ pc[a] = "s177"
    /\ IF is_loaded(sam_processor)
       THEN Goto(a, "s181") /\ UNCHANGED events
       ELSE Emit(Ev("segmentation_finished", 0, FALSE)) /\ Goto(a, "idle")
    /\ UNCHANGED <<maskVars, libVars, workerFields, sam_processor, mutex, sam_registry, loc, ui, run>>

\* line 188: h, w = self.input_image.shape[:2] (AttributeError on None)
S_Shape(a) ==
    /\ pc[a] = "s188"
    /\ Read("input_image", input_image)
    /\ IF input_image = NoImage
       THEN Goto(a, "s226") /\ UNCHANGED loc
       ELSE Goto(a, "s189") /\ loc' = [loc EXCEPT ![a].hw = input_image]
    /\ UNCHANGED <<maskVars, libVars, workerFields, sam_processor, mutex, sam_registry, ui, events>>

MaxSide == 1024
Max2(x, y) == IF x >= y THEN x ELSE y
\* scale = 1024 / max(h, w); new_h, new_w = int(h * scale), int(w * scale)
ResizeDims(hw) ==
    <<(hw[1] * MaxSide) \div Max2(hw[1], hw[2]),
      (hw[2] * MaxSide) \div Max2(hw[1], hw[2])>>

\* lines 189-196: resized_image = cv2.resize(self.input_image, (new_w, new_h))
\* (cv2 may raise) or resized_image = self.input_image
S_Resize(a) ==
    /\ pc[a] = "s189"
    /\ Read("input_image", input_image)
    /\ IF Max2(loc[a].hw[1], loc[a].hw[2]) > MaxSide
       THEN \/ /\ loc' = [loc EXCEPT ![a].resized = ResizeDims(loc[a].hw)]
               /\ Goto(a, "s198")
            \/ /\ UNCHANGED loc
               /\ Goto(a, "s226")
       ELSE /\ loc' = [loc EXCEPT ![a].resized = input_image]
            /\ Goto(a, "s198")
    /\ UNCHANGED <<maskVars, libVars, workerFields, sam_processor, mutex, sam_registry, ui, events>>

\* SAMProcessor.generate_masks(image, **kwargs): raises when no mask generator
\* exists; otherwise the oracle's masks (each of the image's shape), or [] when
\* it finds none or raises inside the try block.
GenerateOutcomes(proc, image) ==
    IF ~proc.mask_generator
    THEN {[raised |-> TRUE, masks |-> <<>>]}
    ELSE {[raised |-> FALSE, masks |-> <<>>],
          [raised |-> FALSE, masks |-> <<[shape |-> image]>>]}

\* lines 205-208: masks = self.sam_processor.generate_masks(resized_image,
\*                                                          **self.sam_params)
S_Generate(a) ==
    /\ pc[a] = "s205"
    /\ Read("sam_params", sam_params)
    /\ \E o \in GenerateOutcomes(sam_processor, loc[a].resized) :
          IF o.raised
          THEN Goto(a, "s226") /\ UNCHANGED loc
          ELSE Goto(a, "s210") /\ loc' = [loc EXCEPT ![a].masks = o.masks]
    /\ UNCHANGED <<maskVars, libVars, workerFields, sam_processor, mutex, sam_registry, ui, events>>

\* lines 216-220: if masks: progress 100 (then line 218) else finished(False)
S_Result(a) ==
    /\ pc[a] = "s216"
    /\ IF loc[a].masks # <<>>
       THEN Emit(Ev("segmentation_progress", 100, FALSE)) /\ Goto(a, "s218")
       ELSE Emit(Ev("segmentation_finished", 0, FALSE)) /\ Goto(a, "idle")
    /\ UNCHANGED <<maskVars, libVars, workerFields, sam_processor, mutex, sam_registry, loc, ui, run>>

\* line 218: self.segmentation_finished.emit(True, masks, ...)
S_Success(a) ==
    /\ pc[a] = "s218"
    /\ Emit(Ev("segmentation_finished", 0, TRUE))
    /\ Goto(a, "idle")
    /\ UNCHANGED <<maskVars, libVars, workerFields, sam_processor, mutex, sam_registry, loc, ui, run>>

\* line 226 (except Exception): self.segmentation_finished.emit(False, [], ...)
S_Except(a) ==
    /\ pc[a] = "s226"
    /\ Emit(Ev("segmentation_finished", 0, FALSE))
    /\ Goto(a, "idle")
    /\ UNCHANGED <<maskVars, libVars, workerFields, sam_processor, mutex, sam_registry, loc, ui, run>>

Next ==
    \/ UI_LoadLock \/ UI_Load57 \/ UI_Load58 \/ UI_Load59 \/ UI_Load60 \/ UI_Load62
    \/ UI_SegLock \/ UI_Seg77 \/ UI_Seg78 \/ UI_Seg79 \/ UI_Seg80 \/ UI_Seg82
    \/ UI_StopLock \/ UI_Stop91 \/ UI_Stop92 \/ UI_Unlock
    \/ \E a \in Acts :
        \/ Run99(a) \/ Run101(a) \/ EmitStarted(a) \/ Poll(a) \/ EmitProgress(a)
        \/ M_CheckFile(a) \/ M_FileMissing(a) \/ M_NewProcessor(a)
        \/ M_CheckDeps(a) \/ M_LoadModel(a) \/ M_Finish(a) \/ M_Failed(a)
        \/ S_CheckLoaded(a) \/ S_Shape(a) \/ S_Resize(a) \/ S_Generate(a)
        \/ S_Result(a) \/ S_Success(a) \/ S_Except(a)

Spec == Init /\ [][Next]_vars

(***************************************************************************)
(* Claims about the worker, checked under Spec                             *)
(***************************************************************************)
Last(q) == q[Len(q)]
TerminalCount == Cardinality({i \in 1..Len(events) : IsTerminal(events[i])})
RunEnded == ~isRunning /\ run.task # "none"

\* C1: a request to start a task (load_sam_model or run_segmentation) made
\* while the worker is executing a task body is rejected: no step of that
\* request changes the task kind, the parameters or the stop flag.
C1_BusyRequestRejected ==
    [][(ui.op \in {"load_sam_model", "run_segmentation"} /\ ui.busy /\ BodyActive)
         => UNCHANGED workerFields]_vars

\* C2: every task run (a run() that entered _run_model_loading or
\* _run_segmentation) has emitted exactly one terminal event when it ends.
C2_ExactlyOneTerminal == RunEnded => TerminalCount = 1

\* C3: if stop_processing set the stop flag after the thread was started and
\* before the first progress event, the run ends with a terminal failure event
\* and holds no success event.
C3_EarlyStopEndsInFailure ==
    (~isRunning /\ run.stopEarly)
        => /\ events # <<>>
           /\ IsTerminal(Last(events))
           /\ \A i \in 1..Len(events) : IsTerminal(events[i]) => ~events[i].ok

\* C4: at any moment at most one activation of run() is inside a task body.
C4_AtMostOneBody == Cardinality({a \in Acts : pc[a] \in Body}) <= 1

\* a request that arrived while a task body was executing has passed its
\* isRunning() check, and the body is still executing
C4_Witness == BodyActive /\ ui.busy /\ ui.pc \in {"L65", "G85"}

\* C5: every step of the worker thread that reads a task-control field
\* (current_task, should_stop, model_path, model_type, input_image,
\* sam_params) is taken while the worker holds the mutex, and every step of
\* a request method that writes one while the interactive thread holds it.
WorkerAccessPcs == {"r99", "r101", "m120", "m121", "m129", "m147", "s188",
                    "s189", "s205"} \cup PollPcs
C5_AccessUnderMutex ==
    [][/\ \A a \in Acts : (pc[a] \in WorkerAccessPcs /\ pc'[a] # pc[a])
                             => mutex = "worker"
       /\ (workerFields' # workerFields) => mutex = "ui"]_vars

\* C6: within one run, every read of a parameter (model_path, model_type,
\* input_image, sam_params) returns the same value.
C6_ParametersStable ==
    \A r1 \in run.reads : \A r2 \in run.reads : r1[1] = r2[1] => r1[2] = r2[2]

\* C7: once the task body has polled the stop flag after a stop_processing
\* call made during that body, the run emits no progress event and no success
\* terminal event any more.
C7_StopsAtNextPoll ==
    [][run.polled => \/ events' = events
                     \/ events' = <<>>
                     \/ (IsTerminal(Last(events')) /\ ~Last(events').ok)]_vars

\* C8: in the signals of a run the start event comes first and only first,
\* and a terminal event is the last one: progress lies between them and
\* nothing follows the terminal event.
C8_EventOrder ==
    \A i \in 1..Len(events) :
        /\ IsStart(events[i]) <=> i = 1
        /\ IsTerminal(events[i]) => i = Len(events)

\* a model-loading run that went through every stage and ended in success
C8_Witness ==
    /\ ~isRunning /\ run.task = "load_model"
    /\ Len(events) = 8
    /\ Last(events) = Ev("model_load_finished", 0, TRUE)

\* C9: the progress percentages of a run lie in 0..100 and never decrease in
\* emission order.
C9_ProgressMonotonic ==
    \A i \in 1..Len(events) :
        IsProgress(events[i]) =>
            /\ events[i].pct \in 0..100
            /\ \A j \in 1..(i - 1) :
                  IsProgress(events[j]) => events[j].pct <= events[i].pct

\* both task kinds have run to success: a model-loading run emitted 90 then
\* 100, or a segmentation run emitted 10, 30, 90, 100
C9_Witness ==
    /\ ~isRunning
    /\ events # <<>>
    /\ Last(events) = Ev("segmentation_finished", 0, TRUE)
    /\ Cardinality({i \in 1..Len(events) : IsProgress(events[i])}) >= 4
    /\ run.task = "segmentation"

(***************************************************************************)
(* MaskProcessor (core/mask_processor.py).  A grid is a function from the  *)
(* cells <<row, col>> (0-based, as numpy indexes them) to pixel values.    *)
(***************************************************************************)
GridH == 3
GridW == 4
MaxMasks == 2         \* longest list handed to process_masks
MaxMinArea == 3       \* largest min_area tried

Cells == (0..(GridH - 1)) \X (0..(GridW - 1))
\* a grid, evaluated once as a whole (g = g makes TLC build the array)
Array(g) == IF g = g THEN g ELSE g
GridOf(S, v) == Array([c \in Cells |-> IF c \in S THEN v ELSE 0])
Foreground(g) == {c \in Cells : g[c] > 0}

MinOf(S) == CHOOSE x \in S : \A y \in S : x <= y
MaxOf(S) == CHOOSE x \in S : \A y \in S : x >= y
\* the first cell in scan order (row by row)
FirstCell(S) ==
    CHOOSE c \in S : \A d \in S : c[1] < d[1] \/ (c[1] = d[1] /\ c[2] <= d[2])

\* mask.astype(np.uint8) * 255 for bool, unchanged for uint8, and
\* (mask * 255).astype(np.uint8) otherwise (the product wraps modulo 256)
ToUint8(seg) ==
    CASE seg.dtype = "bool" -> Array([c \in Cells |-> seg.px[c] * 255])
      [] seg.dtype = "uint8" -> seg.px
      [] OTHER -> Array([c \in Cells |-> (seg.px[c] * 255) % 256])

\* cv2.connectedComponents(mask): 8-connected components of the non-zero cells
Adjacent(c, d) ==
    /\ c # d
    /\ c[1] - d[1] \in {-1, 0, 1}
    /\ c[2] - d[2] \in {-1, 0, 1}

\* the component of F that holds S, grown from the cells added last
RECURSIVE Grow(_, _, _)
Added(S, new, F) == IF new = {} THEN S ELSE Grow(S \cup new, new, F)
Grow(S, frontier, F) ==
    Added(S, {d \in F \ S : \E c \in frontier : Adjacent(c, d)}, F)

RECURSIVE Components(_)
WithRest(K, F) == {K} \cup Components(F \ K)
Components(F) ==
    IF F = {} THEN {}
    ELSE WithRest(Grow({FirstCell(F)}, {FirstCell(F)}, F), F)

connectedComponents(g) == Components(Foreground(g))

\* _remove_noise: keep (as 255) the components of at least min_area cells
remove_noise(g, min_area) ==
    GridOf(UNION {K \in connectedComponents(g) : Cardinality(K) >= min_area}, 255)

\* _fill_holes: cv2.morphologyEx(mask, MORPH_CLOSE, np.ones((5, 5))): a dilation
\* (maximum over the 5x5 window) then an erosion (minimum over it); cells
\* outside the image take no part in either
Window(c) == {d \in Cells : /\ d[1] - c[1] \in -2..2
                            /\ d[2] - c[2] \in -2..2}
Dilate(g) == Array([c \in Cells |-> MaxOf({g[d] : d \in Window(c)})])
Erode(g) == Array([c \in Cells |-> MinOf({g[d] : d \in Window(c)})])
fill_holes_DilateOnly(g) == Dilate(g)
fill_holes(g) == Erode(Dilate(g))

\* _smooth_mask with the default smoothing_strength 1.0: kernel_size =
\* max(3, int(1.0 * 5)) = 5, cv2.GaussianBlur(mask, (5, 5), 1.0) with the
\* border reflected (BORDER_REFLECT_101), then astype(uint8) and
\* threshold(127, 255, THRESH_BINARY).  The kernel exp(-d*d/2), normalised,
\* is 0.0545, 0.2442, 0.4026, 0.2442, 0.0545: in thousandths below.
GaussWeight(d) ==
    CASE d = 0 -> 402
      [] d \in {-1, 1} -> 244
      [] d \in {-2, 2} -> 55

RECURSIVE Reflect(_, _)
Reflect(i, n) ==
    IF n = 1 THEN 0
    ELSE IF i < 0 THEN Reflect(-i, n)
    ELSE IF i >= n THEN Reflect(2 * n - 2 - i, n)
    ELSE i

\* the blur is separable: a pass along the rows (x), then one along the
\* columns (y), each the 5-tap weighted sum
Row(g, r, c) == g[<<r, Reflect(c, GridW)>>]
Col(g, r, c) == g[<<Reflect(r, GridH), c>>]
BlurX(g) ==
    Array([c \in Cells |->
             GaussWeight(-2) * Row(g, c[1], c[2] - 2) + GaussWeight(-1) * Row(g, c[1], c[2] - 1)
           + GaussWeight(0) * Row(g, c[1], c[2])
           + GaussWeight(1) * Row(g, c[1], c[2] + 1) + GaussWeight(2) * Row(g, c[1], c[2] + 2)])
BlurY(g) ==
    Array([c \in Cells |->
             GaussWeight(-2) * Col(g, c[1] - 2, c[2]) + GaussWeight(-1) * Col(g, c[1] - 1, c[2])
           + GaussWeight(0) * Col(g, c[1], c[2])
           + GaussWeight(1) * Col(g, c[1] + 1, c[2]) + GaussWeight(2) * Col(g, c[1] + 2, c[2])])

\* the blurred value, cut to an integer by astype(np.uint8)
AsUint8(b) == Array([c \in Cells |-> b[c] \div 1000000])
Blurred(g) == AsUint8(BlurY(BlurX(g)))
Thresholded(b) == Array([c \in Cells |-> IF b[c] > 127 THEN 255 ELSE 0])

smooth_mask(g) == Thresholded(Blurred(g))

\* _get_bbox: [x_min, y_min, x_max - x_min, y_max - y_min], [0, 0, 0, 0] when empty
get_bbox(g) ==
    LET F == Foreground(g)
        ys == {c[1] : c \in F}
        xs == {c[2] : c \in F}
    IN IF F = {} THEN <<0, 0, 0, 0>>
       ELSE <<MinOf(xs), MinOf(ys), MaxOf(xs) - MinOf(xs), MaxOf(ys) - MinOf(ys)>>

\* _process_single_mask: none (the result None) when the mask is rejected,
\* else the cleaned grid as booleans (1 / 0)
AsBool(g) == Array([c \in Cells |-> IF g[c] > 0 THEN 1 ELSE 0])
Smoothed(g, o) == AsBool(IF o.smoothing THEN smooth_mask(g) ELSE g)
Filled(g, o) == Smoothed(IF o.fill_holes THEN fill_holes(g) ELSE g, o)
Cleaned(g, o) == Filled(IF o.noise_removal THEN remove_noise(g, o.min_area) ELSE g, o)

process_single_mask_NoPreCheck(seg, o) ==
    [none |-> FALSE, px |-> Cleaned(ToUint8(seg), o)]

PreChecked(mask, o) ==
    IF Cardinality(Foreground(mask)) < o.min_area
    THEN [none |-> TRUE, px |-> mask]
    ELSE [none |-> FALSE, px |-> Cleaned(mask, o)]

process_single_mask(seg, o) == PreChecked(ToUint8(seg), o)

\* the loop of process_masks: a record without 'segmentation' raises KeyError,
\* which is caught, and the loop continues with the next record
Updated(mask_data, px) ==
    [mask_data EXCEPT !.segmentation = [dtype |-> "bool", px |-> px],
                      !.area = Cardinality(Foreground(px)),
                      !.bbox = get_bbox(px)]

\* one iteration: what it appends to self.processed_masks
Processed(mask_data, processed) ==
    IF processed.none THEN <<>> ELSE <<Updated(mask_data, processed.px)>>

RECURSIVE ProcessFrom(_, _, _)
ProcessFrom(masks, i, o) ==
    IF i > Len(masks) THEN <<>>
    ELSE (IF ~masks[i].has_segmentation THEN <<>>
          ELSE Processed(masks[i], process_single_mask(masks[i].segmentation, o)))
         \o ProcessFrom(masks, i + 1, o)

process_masks(o) == ProcessFrom(o.masks, 1, o)

(***************************************************************************)
(* SpecMasks: process_masks on lists of sample masks                       *)
(***************************************************************************)
Seg(dtype, S, v) == [dtype |-> dtype, px |-> GridOf(S, v)]
Border == {c \in Cells : c[1] \in {0, GridH - 1} \/ c[2] \in {0, GridW - 1}}

\* the sample masks: a single pixel, two isolated pixels, two pixels touching
\* at a corner, a ring around a hole, the full image, a uint8 mask of weak
\* value 1 on the first row, an integer mask whose value 256 wraps to 0, and a
\* record without 'segmentation'
NoSeg == Seg("bool", {}, 1)
SampleSegs ==
    { Seg("bool", {<<0, 0>>}, 1),
      Seg("bool", {<<0, 0>>, <<0, 2>>}, 1),
      Seg("bool", {<<0, 0>>, <<1, 1>>}, 1),
      Seg("bool", Border, 1),
      Seg("bool", Cells, 1),
      Seg("uint8", {c \in Cells : c[1] = 0}, 1),
      Seg("int64", Cells, 256) }
SampleMasks ==
    {[has_segmentation |-> TRUE, segmentation |-> g] : g \in SampleSegs}
        \cup {[has_segmentation |-> FALSE, segmentation |-> NoSeg]}

\* a list of n sample masks; tag is the record's own metadata (it names the
\* record's place in the input), area and bbox are the oracle's
MaskLists ==
    UNION {{[i \in 1..n |-> [tag |-> i,
                             has_segmentation |-> f[i].has_segmentation,
                             segmentation |-> f[i].segmentation,
                             area |-> 0,
                             bbox |-> <<0, 0, 0, 0>>]]
              : f \in [1..n -> SampleMasks]} : n \in 0..MaxMasks}

WorkerIdle ==
    /\ WorkerInit
    /\ sam_registry = TRUE

InitMasks ==
    /\ WorkerIdle
    /\ LibIdle
    /\ mp_in \in [masks : MaskLists, smoothing : BOOLEAN, noise_removal : BOOLEAN,
                  fill_holes : BOOLEAN, min_area : 0..MaxMinArea]
    /\ processed_masks = <<>>
    /\ mp_pc = "call"

\* MaskProcessor.process_masks(masks, smoothing, noise_removal, fill_holes, min_area)
MP_ProcessMasks ==
    /\ mp_pc = "call"
    /\ processed_masks' = process_masks(mp_in)
    /\ mp_pc' = "done"
    /\ UNCHANGED <<mp_in, workerVars, libVars>>

NextMasks == MP_ProcessMasks

SpecMasks == InitMasks /\ [][NextMasks]_vars

\* foreground pixel count of an input record, before any cleaning
RawCount(m) == Cardinality({c \in Cells : m.segmentation.px[c] # 0})
Emitted(i) == \E j \in 1..Len(processed_masks) : processed_masks[j].tag = i

\* C10: process_masks returns a list that holds no input mask whose foreground
\* pixel count is below min_area, has at most as many entries as the input,
\* and keeps the inputs' relative order.
C10_SmallMasksOmitted ==
    mp_pc = "done" =>
        /\ \A i \in 1..Len(mp_in.masks) :
              (mp_in.masks[i].has_segmentation
                 /\ RawCount(mp_in.masks[i]) < mp_in.min_area) => ~Emitted(i)
        /\ Len(processed_masks) <= Len(mp_in.masks)
        /\ \A j \in 1..Len(processed_masks) : \A k \in 1..Len(processed_masks) :
              j < k => processed_masks[j].tag < processed_masks[k].tag

\* a non-empty mask below min_area was dropped and the mask after it was kept,
\* with no cleaning step enabled that could have removed the first
C10_Witness ==
    /\ mp_pc = "done"
    /\ Len(mp_in.masks) = 2
    /\ mp_in.masks[1].has_segmentation
    /\ RawCount(mp_in.masks[1]) \in 1..(mp_in.min_area - 1)
    /\ ~mp_in.noise_removal /\ ~mp_in.smoothing
    /\ Len(processed_masks) = 1
    /\ processed_masks[1].tag = 2

(***************************************************************************)
(* Contours (mask_processor.py:159-250).  A point is <<x, y>>, x the       *)
(* column and y the row.  A contour is [ndim, pts]: the points in order    *)
(* and the number of axes of the array that holds them (cv2 returns        *)
(* contours of shape (N, 1, 2), three axes).                               *)
(***************************************************************************)
\* cv2's eight directions: 0 is east, then turning towards north (1 is
\* north-east, 2 north, 3 north-west, 4 west, 5 south-west, 6 south, 7 south-east)
DeltaX(s) == CASE s \in {0, 1, 7} -> 1 [] s \in {3, 4, 5} -> -1 [] OTHER -> 0
DeltaY(s) == CASE s \in {1, 2, 3} -> -1 [] s \in {5, 6, 7} -> 1 [] OTHER -> 0
Neighbour(c, s) == <<c[1] + DeltaY(s), c[2] + DeltaX(s)>>
PointOf(c) == <<c[2], c[1]>>

\* border following from the start pixel i0 (the first pixel of a component in
\* scan order, so its west neighbour is background).  Clockwise: the first
\* foreground neighbour met turning from west through north; 4 when there is
\* none (an isolated pixel).
RECURSIVE Clockwise(_, _, _)
Clockwise(F, c, s) ==
    IF (s + 7) % 8 = 4 \/ Neighbour(c, (s + 7) % 8) \in F
    THEN (s + 7) % 8
    ELSE Clockwise(F, c, (s + 7) % 8)

\* the first foreground neighbour of c met turning the other way from s
RECURSIVE CounterClockwise(_, _, _)
CounterClockwise(F, c, s) ==
    IF Neighbour(c, (s + 1) % 8) \in F
    THEN (s + 1) % 8
    ELSE CounterClockwise(F, c, (s + 1) % 8)

\* one step along the border from i3, left by direction t; with
\* CHAIN_APPROX_SIMPLE the pixel i3 is written only where the direction
\* changes (t differs from prev_s, the direction i3 was entered by); the
\* border is closed when the step goes from i1 back to i0
RECURSIVE Follow(_, _, _, _, _, _, _)
Step(F, i0, i1, i3, t, prev_s, pts) ==
    IF Neighbour(i3, t) = i0 /\ i3 = i1
    THEN (IF t # prev_s THEN Append(pts, PointOf(i3)) ELSE pts)
    ELSE Follow(F, i0, i1, Neighbour(i3, t), (t + 4) % 8, t,
                IF t # prev_s THEN Append(pts, PointOf(i3)) ELSE pts)
Follow(F, i0, i1, i3, s, prev_s, pts) ==
    Step(F, i0, i1, i3, CounterClockwise(F, i3, s), prev_s, pts)

Started(F, i0, s) ==
    IF s = 4 THEN <<PointOf(i0)>>
    ELSE Follow(F, i0, Neighbour(i0, s), i0, s, (s + 4) % 8, <<>>)
TraceBorder(F, i0) == Started(F, i0, Clockwise(F, i0, 4))

\* cv2.findContours(mask, RETR_EXTERNAL, CHAIN_APPROX_SIMPLE): the outer border
\* of every 8-connected component, the component found last in scan order
\* first.  (A component lying inside a hole of another one is not returned;
\* a grid needs 5 rows and 5 columns to hold one.)
RECURSIVE ContoursOf(_)
BorderThenRest(K, F) ==
    ContoursOf(F \ K) \o <<[ndim |-> 3, pts |-> TraceBorder(F, FirstCell(K))]>>
ContoursOf(F) ==
    IF F = {} THEN <<>>
    ELSE BorderThenRest(Grow({FirstCell(F)}, {FirstCell(F)}, F), F)
findContours(g) == ContoursOf(Foreground(g))

Abs(n) == IF n < 0 THEN -n ELSE n
Succ(i, n) == IF i = n THEN 1 ELSE i + 1

\* cv2.contourArea(contour), doubled: the shoelace sum over the closed polygon
\* (the area of a polygon on the pixel lattice is a multiple of one half)
RECURSIVE Shoelace(_, _)
Shoelace(pts, i) ==
    IF i > Len(pts) THEN 0
    ELSE pts[i][1] * pts[Succ(i, Len(pts))][2]
           - pts[Succ(i, Len(pts))][1] * pts[i][2] + Shoelace(pts, i + 1)
contourArea2(contour) == Abs(Shoelace(contour.pts, 1))

\* cv2.arcLength(contour, True) as [straight, diagonal]: the length is
\* straight + diagonal * sqrt(2).  Every edge of a traced border runs along
\* an axis or a diagonal.
EdgeLength(p, q) ==
    IF p[1] = q[1] \/ p[2] = q[2]
    THEN [straight |-> Abs(p[1] - q[1]) + Abs(p[2] - q[2]), diagonal |-> 0]
    ELSE [straight |-> 0, diagonal |-> Abs(p[1] - q[1])]
RECURSIVE ArcFrom(_, _)
Longer(e, rest) == [straight |-> e.straight + rest.straight,
                    diagonal |-> e.diagonal + rest.diagonal]
ArcFrom(pts, i) ==
    IF i > Len(pts) THEN [straight |-> 0, diagonal |-> 0]
    ELSE Longer(EdgeLength(pts[i], pts[Succ(i, Len(pts))]), ArcFrom(pts, i + 1))
arcLength(contour) == ArcFrom(contour.pts, 1)

\* cv2.boundingRect(contour): x, y, width, height
Xs(pts) == {pts[i][1] : i \in 1..Len(pts)}
Ys(pts) == {pts[i][2] : i \in 1..Len(pts)}
boundingRect(contour) ==
    <<MinOf(Xs(contour.pts)), MinOf(Ys(contour.pts)),
      MaxOf(Xs(contour.pts)) - MinOf(Xs(contour.pts)) + 1,
      MaxOf(Ys(contour.pts)) - MinOf(Ys(contour.pts)) + 1>>

\* max(contours, key=cv2.contourArea): the first contour of the largest area
MaxByArea(contours) ==
    contours[MinOf({i \in 1..Len(contours) :
                      \A j \in 1..Len(contours) :
                          contourArea2(contours[j]) <= contourArea2(contours[i])})]

\* mask.astype(np.uint8) * 255 for a bool mask, mask.astype(np.uint8) otherwise
\* (mask_processor.py:179-182); the cast wraps modulo 256
MaskUint8(seg) ==
    IF seg.dtype = "bool" THEN Array([c \in Cells |-> seg.px[c] * 255])
    ELSE Array([c \in Cells |-> seg.px[c] % 256])

\* A contour record is a dict; keys is the set of keys it holds, and a field
\* whose key is absent is left at its zero.  area2 is the 'area' value doubled,
\* perimeter and epsilon are lengths [straight, diagonal], epsilon in
\* thousandths; original_data is the tag of the mask record it refers to.
NoLength == [straight |-> 0, diagonal |-> 0]
ExtractKeys == {"mask_id", "contour", "area", "perimeter", "bbox", "original_data"}
SimplifyKeys == {"simplified", "epsilon", "points_original", "points_simplified"}

\* contour_info (mask_processor.py:193-200) for mask number i (from 0)
ContourInfo(i, mask_data, main_contour) ==
    [keys |-> ExtractKeys,
     mask_id |-> i,
     contour |-> main_contour,
     area2 |-> contourArea2(main_contour),
     perimeter |-> arcLength(main_contour),
     bbox |-> boundingRect(main_contour),
     original_data |-> mask_data.tag,
     simplified |-> FALSE,
     epsilon |-> NoLength,
     points_original |-> 0,
     points_simplified |-> 0]

\* one iteration of the loop of extract_contours: a record without
\* 'segmentation' raises KeyError, which is caught; a mask without contours
\* adds nothing; else the contour of the largest area is recorded
Extracted(i, mask_data, contours) ==
    IF contours = <<>> THEN <<>>
    ELSE <<ContourInfo(i, mask_data, MaxByArea(contours))>>

RECURSIVE ExtractFrom(_, _)
ExtractFrom(masks, i) ==
    IF i > Len(masks) THEN <<>>
    ELSE (IF ~masks[i].has_segmentation THEN <<>>
          ELSE Extracted(i - 1, masks[i],
                         findContours(MaskUint8(masks[i].segmentation))))
         \o ExtractFrom(masks, i + 1)

\* extract_contours(masks): masks = None stands for self.processed_masks
extract_contours(masks) ==
    ExtractFrom(IF masks.none THEN processed_masks ELSE masks.list, 1)

\* cv2.approxPolyDP(contour, epsilon, True).  The Douglas-Peucker result is a
\* selection of the contour's own vertices, never empty; which vertices are
\* kept depends on distances against epsilon, a multiple of sqrt(2) in
\* general, and is left open here: every non-empty selection is an outcome.
RECURSIVE Selected(_, _, _)
Selected(pts, S, i) ==
    IF i > Len(pts) THEN <<>>
    ELSE (IF i \in S THEN <<pts[i]>> ELSE <<>>) \o Selected(pts, S, i + 1)
Selections(contour) ==
    {[ndim |-> 3, pts |-> Selected(contour.pts, S, 1)] :
        S \in (SUBSET (1..Len(contour.pts))) \ {{}}}
approxPolyDP(contour, epsilon) == Selections(contour)

\* epsilon_factor * cv2.arcLength(contour, True)
Epsilon(factor, contour) ==
    [straight |-> factor * arcLength(contour).straight,
     diagonal |-> factor * arcLength(contour).diagonal]

\* simplified_info (mask_processor.py:236-241)
SimplifiedInfo(data, factor, simplified_contour) ==
    [data EXCEPT !.keys = data.keys \cup {"contour"} \cup SimplifyKeys,
                 !.contour = simplified_contour,
                 !.simplified = TRUE,
                 !.epsilon = Epsilon(factor, data.contour),
                 !.points_original = Len(data.contour.pts),
                 !.points_simplified = Len(simplified_contour.pts)]

\* one iteration of the loop of simplify_contours: the records it can append.
\* data['contour'] raises KeyError on a record without the key, and the
\* handler appends the record as it came (mask_processor.py:245-248)
SimplifiedRecords(data, factor) ==
    IF "contour" \notin data.keys THEN {data}
    ELSE {SimplifiedInfo(data, factor, c) :
             c \in approxPolyDP(data.contour, Epsilon(factor, data.contour))}

RECURSIVE SimplifyFrom(_, _, _)
SimplifyFrom(data, i, factor) ==
    IF i > Len(data) THEN {<<>>}
    ELSE {<<r>> \o rest : r \in SimplifiedRecords(data[i], factor),
                          rest \in SimplifyFrom(data, i + 1, factor)}

\* simplify_contours(contour_data, epsilon_factor): the lists it can return
simplify_contours(data, factor) == SimplifyFrom(data, 1, factor)

(***************************************************************************)
(* SpecContours: extract_contours, then simplify_contours, on sample masks *)
(* and on contour records supplied by a caller                             *)
(***************************************************************************)
MaxContourMasks == 2     \* longest list handed to extract_contours
EpsilonFactors == {20, 50}

\* a single pixel, two pixels in a row, a one-pixel-wide line, three pixels at
\* a corner, a 2x2 square, two separate corners, the full image, an empty
\* mask, an integer mask whose value 256 casts to 0
ContourSegs ==
    { Seg("bool", {<<1, 1>>}, 1),
      Seg("bool", {<<0, 0>>, <<0, 1>>}, 1),
      Seg("bool", {c \in Cells : c[1] = 1}, 1),
      Seg("bool", {<<0, 0>>, <<0, 1>>, <<1, 0>>}, 1),
      Seg("bool", {<<0, 0>>, <<0, 1>>, <<1, 0>>, <<1, 1>>}, 1),
      Seg("bool", {<<0, 0>>, <<0, 1>>, <<1, 0>>, <<1, 3>>, <<2, 3>>, <<2, 2>>}, 1),
      Seg("uint8", Cells, 255),
      Seg("bool", {}, 1),
      Seg("int64", Cells, 256) }
ContourMasks ==
    {[has_segmentation |-> TRUE, segmentation |-> g] : g \in ContourSegs}
        \cup {[has_segmentation |-> FALSE, segmentation |-> NoSeg]}
ContourMaskLists ==
    UNION {{[i \in 1..n |-> [tag |-> i,
                             has_segmentation |-> f[i].has_segmentation,
                             segmentation |-> f[i].segmentation,
                             area |-> 0,
                             bbox |-> <<0, 0, 0, 0>>]]
              : f \in [1..n -> ContourMasks]} : n \in 0..MaxContourMasks}

\* records a caller hands to simplify_contours directly: a triangle, and a
\* record that has no 'contour'
Triangle == [ndim |-> 3, pts |-> <<<<0, 0>>, <<0, 2>>, <<2, 0>>>>]
CallerRecord == ContourInfo(0, [tag |-> 1], Triangle)
NoContourRecord ==
    [CallerRecord EXCEPT !.keys = ExtractKeys \ {"contour"},
                         !.contour = [ndim |-> 3, pts |-> <<>>]]
CallerContourData ==
    { <<CallerRecord>>, <<NoContourRecord>>, <<NoContourRecord, CallerRecord>> }

InitContours ==
    /\ WorkerIdle
    /\ mp_in = [masks |-> <<>>, smoothing |-> FALSE, noise_removal |-> FALSE,
                fill_holes |-> FALSE, min_area |-> 0]
    /\ mp_pc = "done"
    /\ FillIdle
    /\ FnIdle
    /\ DxfIdle
    /\ ConverterIdle
    /\ PipelineIdle
    /\ UiIdle
    /\ epsilon_factor \in EpsilonFactors
    /\ simplified_data = <<>>
    /\ \/ /\ cd_pc = "extract"
          /\ cd_masks \in [none : {FALSE}, list : ContourMaskLists]
          /\ processed_masks = <<>>
          /\ contour_data = <<>>
       \/ /\ cd_pc = "extract"
          /\ cd_masks = [none |-> TRUE, list |-> <<>>]
          /\ processed_masks \in ContourMaskLists
          /\ contour_data = <<>>
       \/ /\ cd_pc = "simplify"
          /\ cd_masks = [none |-> TRUE, list |-> <<>>]
          /\ processed_masks = <<>>
          /\ contour_data \in CallerContourData

\* contour_data = extract_contours(masks)
EC_ExtractContours ==
    /\ cd_pc = "extract"
    /\ contour_data' = extract_contours(cd_masks)
    /\ cd_pc' = "simplify"
    /\ UNCHANGED <<cd_masks, epsilon_factor, simplified_data>>
    /\ UNCHANGED <<workerVars, maskVars, fillVars, fnVars, dxfVars, converterVars, pl_pc, uiVars>>

\* simplified = simplify_contours(contour_data, epsilon_factor)
SC_SimplifyContours ==
    /\ cd_pc = "simplify"
    /\ simplified_data' \in simplify_contours(contour_data, epsilon_factor)
    /\ cd_pc' = "done"
    /\ UNCHANGED <<cd_masks, contour_data, epsilon_factor>>
    /\ UNCHANGED <<workerVars, maskVars, fillVars, fnVars, dxfVars, converterVars, pl_pc, uiVars>>

NextContours == EC_ExtractContours \/ SC_SimplifyContours

SpecContours == InitContours /\ [][NextContours]_vars

\* C11: every contour record returned by extract_contours holds a contour of
\* at least 3 points.
C11_ContoursHaveThreePoints ==
    cd_pc = "simplify" =>
        \A i \in 1..Len(contour_data) :
            "contour" \in contour_data[i].keys
                => Len(contour_data[i].contour.pts) >= 3

\* C12: every record returned by simplify_contours carries points_simplified,
\* points_original and epsilon, with points_simplified <= points_original and
\* epsilon = epsilon_factor * perimeter; records passed through included.
C12_SimplifiedRecords ==
    cd_pc = "done" =>
        \A i \in 1..Len(simplified_data) :
            /\ SimplifyKeys \subseteq simplified_data[i].keys
            /\ simplified_data[i].points_simplified
                   <= simplified_data[i].points_original
            /\ simplified_data[i].epsilon
                   = [straight |-> epsilon_factor * simplified_data[i].perimeter.straight,
                      diagonal |-> epsilon_factor * simplified_data[i].perimeter.diagonal]

(***************************************************************************)
(* DXFExporter (core/dxf_exporter.py): coordinate conversion and the layer *)
(* classifier.  Coordinates and scale factors are whole numbers here; the  *)
(* code computes the same products and differences in floating point.      *)
(***************************************************************************)
\* contour.squeeze() drops every axis of length 1: an array of shape (N, 1, 2)
\* becomes N rows of 2 numbers when N > 1, and a single row of shape (2,) when
\* N = 1, whose elements are numbers, not points
Squeezed(contour) ==
    IF contour.ndim = 3
    THEN [ndim |-> IF Len(contour.pts) = 1 THEN 1 ELSE 2, pts |-> contour.pts]
    ELSE contour

\* the point the loop body appends (dxf_exporter.py:120-127); image_height is
\* [none, v], none standing for None
ConvertPoint(point, scale_factor, image_height) ==
    <<point[1] * scale_factor,
      IF image_height.none THEN point[2] * scale_factor
      ELSE (image_height.v * scale_factor) - point[2] * scale_factor>>

RECURSIVE ConvertFrom(_, _, _, _)
ConvertFrom(pts, i, scale_factor, image_height) ==
    IF i > Len(pts) THEN <<>>
    ELSE (IF Len(pts[i]) >= 2
          THEN <<ConvertPoint(pts[i], scale_factor, image_height)>>
          ELSE <<>>) \o ConvertFrom(pts, i + 1, scale_factor, image_height)

\* after squeeze: len(point) raises TypeError when the rows are numbers
ConvertSqueezed(contour, scale_factor, image_height) ==
    IF contour.ndim = 1 THEN [raised |-> TRUE, points |-> <<>>]
    ELSE [raised |-> FALSE,
          points |-> ConvertFrom(contour.pts, 1, scale_factor, image_height)]

\* _convert_contour_points(contour, scale_factor, image_height)
convert_contour_points(contour, scale_factor, image_height) ==
    ConvertSqueezed(Squeezed(contour), scale_factor, image_height)

\* _get_layer_name(area, prefix)
get_layer_name(area, prefix) ==
    IF area < 1000 THEN prefix \o "_SMALL"
    ELSE IF area < 10000 THEN prefix \o "_MEDIUM"
    ELSE IF area < 100000 THEN prefix \o "_LARGE"
    ELSE prefix \o "_XLARGE"

get_layer_color_Inclusive(area) ==
    IF area <= 1000 THEN 5
    ELSE IF area <= 10000 THEN 3
    ELSE IF area <= 100000 THEN 2
    ELSE 1

\* _get_layer_color(area): 5 blue, 3 green, 2 yellow, 1 red
get_layer_color(area) ==
    IF area < 1000 THEN 5
    ELSE IF area < 10000 THEN 3
    ELSE IF area < 100000 THEN 2
    ELSE 1

(***************************************************************************)
(* SpecFn: one call of _convert_contour_points, or of the classifier       *)
(* (_get_layer_name and _get_layer_color on the same area)                 *)
(***************************************************************************)
MaxScale == 2
MaxPoints == 4
Coords == {0, 10, 20}
ImageHeights ==
    {[none |-> TRUE, v |-> 0], [none |-> FALSE, v |-> 0], [none |-> FALSE, v |-> 100]}
Prefixes == {"WALL2CAD", "A"}
AreaSamples == {0, 500, 999, 1000, 5000, 9999, 10000, 50000, 99999, 100000, 500000}
NoContour == [ndim |-> 2, pts |-> <<>>]

\* contours of up to MaxPoints points: the first points of a fixed walk, as
\* cv2 returns them (three axes) or as a plain list of rows (two axes)
Walk == <<<<10, 20>>, <<20, 20>>, <<20, 0>>, <<0, 10>>, <<10, 10>>>>
ContourSamples ==
    {[ndim |-> d, pts |-> SubSeq(Walk, 1, n)] : d \in {2, 3}, n \in 0..MaxPoints}

InitFn ==
    /\ WorkerIdle
    /\ MaskIdle
    /\ FillIdle
    /\ ContoursIdle
    /\ DxfIdle
    /\ ConverterIdle
    /\ PipelineIdle
    /\ UiIdle
    /\ fn_result = [done |-> FALSE, raised |-> FALSE, points |-> <<>>,
                    layer_name |-> "", color |-> 0]
    /\ \/ fn_call \in [op : {"convert_contour_points"}, contour : ContourSamples,
                       scale_factor : 1..MaxScale, image_height : ImageHeights,
                       area : {0}, prefix : {""}]
       \/ fn_call \in [op : {"classify"}, contour : {NoContour},
                       scale_factor : {1}, image_height : {[none |-> TRUE, v |-> 0]},
                       area : AreaSamples, prefix : Prefixes]

Converted(r) ==
    [done |-> TRUE, raised |-> r.raised, points |-> r.points,
     layer_name |-> "", color |-> 0]

\* points = self._convert_contour_points(contour, scale_factor, image_height)
FN_ConvertContourPoints ==
    /\ fn_call.op = "convert_contour_points"
    /\ ~fn_result.done
    /\ fn_result' = Converted(convert_contour_points(fn_call.contour,
                                  fn_call.scale_factor, fn_call.image_height))
    /\ UNCHANGED fn_call
    /\ UNCHANGED <<workerVars, maskVars, fillVars, contourVars, dxfVars, converterVars, pl_pc, uiVars>>

\* self._get_layer_name(area, prefix) and self._get_layer_color(area)
FN_Classify ==
    /\ fn_call.op = "classify"
    /\ ~fn_result.done
    /\ fn_result' = [done |-> TRUE, raised |-> FALSE, points |-> <<>>,
                     layer_name |-> get_layer_name(fn_call.area, fn_call.prefix),
                     color |-> get_layer_color(fn_call.area)]
    /\ UNCHANGED fn_call
    /\ UNCHANGED <<workerVars, maskVars, fillVars, contourVars, dxfVars, converterVars, pl_pc, uiVars>>

NextFn == FN_ConvertContourPoints \/ FN_Classify

SpecFn == InitFn /\ [][NextFn]_vars

\* C13: _convert_contour_points returns one point per contour point, in
\* order: (px*scale, image_height*scale - py*scale) when image_height is
\* supplied (0 included), (px*scale, py*scale) when it is None.
C13_ConvertedPoints ==
    (fn_call.op = "convert_contour_points" /\ fn_result.done) =>
        /\ ~fn_result.raised
        /\ Len(fn_result.points) = Len(fn_call.contour.pts)
        /\ \A i \in 1..Len(fn_call.contour.pts) :
              /\ fn_result.points[i][1]
                    = fn_call.contour.pts[i][1] * fn_call.scale_factor
              /\ fn_result.points[i][2]
                    = IF fn_call.image_height.none
                      THEN fn_call.contour.pts[i][2] * fn_call.scale_factor
                      ELSE fn_call.image_height.v * fn_call.scale_factor
                             - fn_call.contour.pts[i][2] * fn_call.scale_factor

\* C14: the layer name and the colour come from the same bucket of the area:
\* below 1000 SMALL and 5, below 10000 MEDIUM and 3, below 100000 LARGE and 2,
\* else XLARGE and 1.
Bucket(area) ==
    IF area < 1000 THEN [suffix |-> "_SMALL", color |-> 5]
    ELSE IF area < 10000 THEN [suffix |-> "_MEDIUM", color |-> 3]
    ELSE IF area < 100000 THEN [suffix |-> "_LARGE", color |-> 2]
    ELSE [suffix |-> "_XLARGE", color |-> 1]
C14_LayerAndColourAgree ==
    (fn_call.op = "classify" /\ fn_result.done) =>
        /\ fn_result.layer_name = fn_call.prefix \o Bucket(fn_call.area).suffix
        /\ fn_result.color = Bucket(fn_call.area).color

\* an area on a threshold has been classified into the upper bucket
C14_Witness ==
    /\ fn_call.op = "classify" /\ fn_result.done
    /\ fn_call.area = 10000 /\ fn_call.prefix = "WALL2CAD"
    /\ fn_result.layer_name = "WALL2CAD_LARGE"
    /\ fn_result.color = 2

(***************************************************************************)
(* DXFExporter (core/dxf_exporter.py): the document.  A layer is           *)
(* [name, color, linetype]; an entity is [dxftype, layer, points, source], *)
(* source being the position in contour_data of the contour it was built   *)
(* from (0 for a text).                                                    *)
(***************************************************************************)
\* ezdxf.new(dxfversion) raises on any other version name
SupportedVersions == {"R12", "R2000", "R2004", "R2007", "R2010", "R2013", "R2018"}
\* unit_map (dxf_exporter.py:36-41), with ezdxf's codes: IN 1, MM 4, CM 5, M 6
UnitTypes == {"mm", "cm", "m", "inch"}
UnitCode(units_type) ==
    CASE units_type = "mm" -> 4
      [] units_type = "cm" -> 5
      [] units_type = "m" -> 6
      [] OTHER -> 1

\* ezdxf.new(dxfversion): a document that already holds the layers "0" and
\* "Defpoints", with $INSUNITS at its default 6 (metres)
NewDocument(dxf_version, serial) ==
    [none |-> FALSE, serial |-> serial, dxfversion |-> dxf_version, units |-> 6,
     layers |-> <<[name |-> "0", color |-> 7, linetype |-> "Continuous"],
                  [name |-> "Defpoints", color |-> 7, linetype |-> "Continuous"]>>]

\* create_document(dxf_version, units_type): [ok, doc, msp].  ezdxf.new raises
\* before self.doc is assigned; building unit_map reads units.INCH after it
create_document(dxf_version, units_type) ==
    IF dxf_version \notin SupportedVersions
    THEN [ok |-> FALSE, doc |-> doc, msp |-> msp]
    ELSE IF ~units_INCH
    THEN [ok |-> FALSE, doc |-> NewDocument(dxf_version, doc.serial + 1), msp |-> <<>>]
    ELSE [ok |-> TRUE,
          doc |-> IF units_type \in UnitTypes
                  THEN [NewDocument(dxf_version, doc.serial + 1)
                            EXCEPT !.units = UnitCode(units_type)]
                  ELSE NewDocument(dxf_version, doc.serial + 1),
          msp |-> <<>>]

LayerNames(layers) == {layers[i].name : i \in 1..Len(layers)}

ensure_layer_exists_Always(layers, layer_name, area) ==
    Append(layers, [name |-> layer_name, color |-> get_layer_color(area),
                    linetype |-> "CONTINUOUS"])

\* _ensure_layer_exists(layer_name, area): the layer table afterwards
ensure_layer_exists(layers, layer_name, area) ==
    IF layer_name \in LayerNames(layers) THEN layers
    ELSE Append(layers, [name |-> layer_name, color |-> get_layer_color(area),
                         linetype |-> "CONTINUOUS"])

\* data.get('area', 0).  The record holds the area doubled; the thresholds it
\* is compared with are whole numbers, so its whole part decides
AreaOf(data) == IF "area" \in data.keys THEN data.area2 \div 2 ELSE 0

\* msp.add_lwpolyline raises DXFVersionError in a document older than R2000
SupportsLwPolyline(dxf_version) == dxf_version # "R12"

\* dxf_exporter.py:89-99 on the state st = [layers, msp, count] of the loop
AddPolyline_CountSkipped(st, layer_name, points, i) ==
    IF Len(points) < 3 \/ ~SupportsLwPolyline(doc.dxfversion)
    THEN [st EXCEPT !.count = st.count + 1]
    ELSE [st EXCEPT !.msp = Append(st.msp, [dxftype |-> "LWPOLYLINE",
                                            layer |-> layer_name,
                                            points |-> points, source |-> i]),
                    !.count = st.count + 1]

AddPolyline(st, layer_name, points, i) ==
    IF Len(points) < 3 \/ ~SupportsLwPolyline(doc.dxfversion) THEN st
    ELSE [st EXCEPT !.msp = Append(st.msp, [dxftype |-> "LWPOLYLINE",
                                            layer |-> layer_name,
                                            points |-> points, source |-> i]),
                    !.count = st.count + 1]

\* dxf_exporter.py:84-99: an error raised by the conversion ends the iteration
AddConverted(st, layer_name, conv, i) ==
    IF conv.raised THEN st ELSE AddPolyline(st, layer_name, conv.points, i)

\* dxf_exporter.py:78-99: the layer is made sure of before the points are looked at
AddToLayer(st, data, area, a, i) ==
    AddConverted([st EXCEPT !.layers = ensure_layer_exists(
                                  st.layers, get_layer_name(area, a.layer_prefix), area)],
                 get_layer_name(area, a.layer_prefix),
                 convert_contour_points(data.contour, a.scale_factor, a.image_height),
                 i)

\* one iteration of the loop of add_contours_as_polylines; data['contour']
\* raises KeyError on a record without the key
AddContour(st, data, a, i) ==
    IF "contour" \notin data.keys THEN st
    ELSE AddToLayer(st, data, AreaOf(data), a, i)

RECURSIVE AddContoursFrom(_, _, _, _)
AddContoursFrom(st, data, a, i) ==
    IF i > Len(data) THEN st
    ELSE AddContoursFrom(AddContour(st, data[i], a, i), data, a, i + 1)

\* add_contours_as_polylines(contour_data, scale_factor, image_height,
\* layer_prefix), a the three last arguments: [layers, msp, count]
add_contours_as_polylines(data, a) ==
    IF doc.none THEN [layers |-> doc.layers, msp |-> msp, count |-> 0]
    ELSE AddContoursFrom([layers |-> doc.layers, msp |-> msp, count |-> 0],
                         data, a, 1)

\* the layer a fixed name and colour is asked for (dxf_exporter.py:185-187, 213-215)
WithLayer(layers, layer_name, color) ==
    IF layer_name \in LayerNames(layers) THEN layers
    ELSE Append(layers, [name |-> layer_name, color |-> color,
                         linetype |-> "Continuous"])

\* the loop of add_text_annotations; annotation.get raises on an annotation
\* that is not a dict
RECURSIVE AddTextsFrom(_, _, _)
AddText(st, annotation) ==
    IF ~annotation.is_dict THEN st
    ELSE [st EXCEPT !.msp = Append(st.msp, [dxftype |-> "TEXT",
                                            layer |-> "WALL2CAD_TEXT",
                                            points |-> <<annotation.position>>,
                                            source |-> 0]),
                    !.count = st.count + 1]
AddTextsFrom(st, annotations, i) ==
    IF i > Len(annotations) THEN st
    ELSE AddTextsFrom(AddText(st, annotations[i]), annotations, i + 1)

\* add_text_annotations(annotations): [layers, msp, count]
add_text_annotations(annotations) ==
    IF doc.none THEN [layers |-> doc.layers, msp |-> msp, count |-> 0]
    ELSE AddTextsFrom([layers |-> WithLayer(doc.layers, "WALL2CAD_TEXT", 7),
                       msp |-> msp, count |-> 0], annotations, 1)

\* add_image_reference(image_path): [ok, layers].  Without a document
\* self.doc.layers raises; with one, the layer is made sure of and then
\* self.doc.add_image_def(image_path) raises (ezdxf's add_image_def has a
\* second required parameter, size_in_pixel), so no IMAGE entity is added
add_image_reference(image_path) ==
    IF ~image_path.exists \/ doc.none THEN [ok |-> FALSE, layers |-> doc.layers]
    ELSE [ok |-> FALSE, layers |-> WithLayer(doc.layers, "WALL2CAD_IMAGE", 8)]

\* get_export_stats()
CountOf(dxftype) == Cardinality({i \in 1..Len(msp) : msp[i].dxftype = dxftype})
get_export_stats ==
    IF doc.none THEN NoStats
    ELSE [empty |-> FALSE, total_entities |-> Len(msp),
          polylines |-> CountOf("LWPOLYLINE"), images |-> CountOf("IMAGE"),
          texts |-> CountOf("TEXT"), layers |-> Len(doc.layers),
          dxfversion |-> doc.dxfversion, units |-> doc.units]

\* save(file_path), file_path = [dirname, basename]: the files afterwards when
\* the write succeeds.  os.makedirs('') raises when the path has no directory
CanSave(file_path) == ~doc.none /\ file_path.dirname # ""
Saved(file_path) ==
    {f \in disk : f.path # file_path}
        \cup {[path |-> file_path, doc |-> doc, msp |-> msp]}

(***************************************************************************)
(* SpecDxf: a caller making up to MaxCalls calls on one DXFExporter        *)
(***************************************************************************)
MaxCalls == 4

Versions == {"R2018", "R12", "R9"}
UnitArgs == {"mm", "ft"}

\* contour records as the exporter reads them: 'contour' and 'area'
Segment == [ndim |-> 3, pts |-> <<<<0, 0>>, <<0, 2>>>>]
Single == [ndim |-> 3, pts |-> <<<<1, 1>>>>]
Quad == [ndim |-> 3, pts |-> <<<<0, 0>>, <<0, 2>>, <<3, 2>>, <<3, 0>>>>]
Rec(contour, area) ==
    [ContourInfo(0, [tag |-> 1], contour) EXCEPT !.area2 = 2 * area]
NoAreaRecord == [Rec(Triangle, 5000) EXCEPT !.keys = ExtractKeys \ {"area"}]

\* two contours on two layers; a contour of 2 points before a good one; a
\* contour of 1 point, a record without 'contour' and one without 'area';
\* two contours for the same layer; no contour
ContourLists ==
    { <<Rec(Triangle, 500), Rec(Quad, 5000)>>,
      <<Rec(Segment, 150000), Rec(Triangle, 500)>>,
      <<Rec(Single, 50000), NoContourRecord, NoAreaRecord>>,
      <<Rec(Triangle, 500), Rec(Quad, 999)>>,
      <<>> }
ContourArgs ==
    [scale_factor : {1}, image_height : {[none |-> FALSE, v |-> 100]},
     layer_prefix : Prefixes]

AnnotationLists ==
    { <<>>,
      <<[is_dict |-> TRUE, position |-> <<0, 0>>],
        [is_dict |-> FALSE, position |-> <<0, 0>>]>> }
ImagePaths == {[name |-> "plan.png", exists |-> TRUE],
               [name |-> "gone.png", exists |-> FALSE]}
FilePaths == {[dirname |-> "out", basename |-> "walls.dxf"],
              [dirname |-> "", basename |-> "walls.dxf"]}

InitDxf ==
    /\ WorkerIdle
    /\ MaskIdle
    /\ FillIdle
    /\ ContoursIdle
    /\ FnIdle
    /\ ConverterIdle
    /\ PipelineIdle
    /\ UiIdle
    /\ DxfInit
    /\ units_INCH \in BOOLEAN

\* the call is recorded with the document as it was when the call was made
DxfCalled(op, ok, count, stats, arg, data) ==
    /\ dxf_calls < MaxCalls
    /\ dxf_calls' = dxf_calls + 1
    /\ dxf_call' = [op |-> op, ok |-> ok, count |-> count, stats |-> stats,
                    arg |-> arg, contour_data |-> data,
                    before |-> [doc |-> doc, msp |-> msp]]
    /\ UNCHANGED units_INCH
    /\ UNCHANGED <<workerVars, maskVars, fillVars, contourVars, fnVars, converterVars, pl_pc, uiVars>>

DX_CreateDocument ==
    \E v \in Versions, u \in UnitArgs :
        /\ doc' = create_document(v, u).doc
        /\ msp' = create_document(v, u).msp
        /\ DxfCalled("create_document", create_document(v, u).ok, 0, NoStats,
                     [dxf_version |-> v, units_type |-> u], <<>>)
        /\ UNCHANGED disk

DX_AddContours ==
    \E data \in ContourLists, a \in ContourArgs :
        /\ doc' = [doc EXCEPT !.layers = add_contours_as_polylines(data, a).layers]
        /\ msp' = add_contours_as_polylines(data, a).msp
        /\ DxfCalled("add_contours_as_polylines", TRUE,
                     add_contours_as_polylines(data, a).count, NoStats, a, data)
        /\ UNCHANGED disk

DX_AddText ==
    \E annotations \in AnnotationLists :
        /\ doc' = [doc EXCEPT !.layers = add_text_annotations(annotations).layers]
        /\ msp' = add_text_annotations(annotations).msp
        /\ DxfCalled("add_text_annotations", TRUE,
                     add_text_annotations(annotations).count, NoStats,
                     annotations, <<>>)
        /\ UNCHANGED disk

DX_AddImage ==
    \E image_path \in ImagePaths :
        /\ doc' = [doc EXCEPT !.layers = add_image_reference(image_path).layers]
        /\ DxfCalled("add_image_reference", add_image_reference(image_path).ok,
                     0, NoStats, image_path, <<>>)
        /\ UNCHANGED <<msp, disk>>

\* save(file_path): doc.saveas may fail on its own (the write), whatever the
\* path; writable records whether the target can be written
DX_Save ==
    \E file_path \in FilePaths, written \in BOOLEAN :
        /\ disk' = IF CanSave(file_path) /\ written THEN Saved(file_path) ELSE disk
        /\ DxfCalled("save", CanSave(file_path) /\ written, 0, NoStats,
                     [path |-> file_path, writable |-> written], <<>>)
        /\ UNCHANGED <<doc, msp>>

DX_Stats ==
    /\ DxfCalled("get_export_stats", TRUE, 0, get_export_stats, <<>>, <<>>)
    /\ UNCHANGED <<doc, msp, disk>>

\* close(): self.doc = None, self.msp = None
DX_Close ==
    /\ doc' = [NoDoc EXCEPT !.serial = doc.serial]
    /\ msp' = <<>>
    /\ DxfCalled("close", TRUE, 0, NoStats, <<>>, <<>>)
    /\ UNCHANGED disk

NextDxf ==
    \/ DX_CreateDocument
    \/ DX_AddContours
    \/ DX_AddText
    \/ DX_AddImage
    \/ DX_Save
    \/ DX_Stats
    \/ DX_Close

SpecDxf == InitDxf /\ [][NextDxf]_vars

\* C17: create_document reports success only for a recognized version and
\* unit system, and otherwise fails leaving self.doc and self.msp as they were.
C17_CreateDocumentFailsFast ==
    dxf_call.op = "create_document" =>
        /\ dxf_call.ok => /\ dxf_call.arg.dxf_version \in SupportedVersions
                          /\ dxf_call.arg.units_type \in UnitTypes
        /\ (dxf_call.arg.dxf_version \notin SupportedVersions
               \/ dxf_call.arg.units_type \notin UnitTypes)
             => /\ ~dxf_call.ok
                /\ doc = dxf_call.before.doc
                /\ msp = dxf_call.before.msp

\* C18: within one document no layer name occurs twice, and every call leaves
\* the layers that exist as they are (name and colour), adding new layers
\* only behind them.
NoDuplicates(layers) ==
    \A i \in 1..Len(layers) : \A j \in 1..Len(layers) :
        layers[i].name = layers[j].name => i = j
C18_LayerCreationIdempotent ==
    [][/\ NoDuplicates(doc'.layers)
       /\ (~doc.none /\ ~doc'.none /\ doc'.serial = doc.serial)
            => /\ Len(doc'.layers) >= Len(doc.layers)
               /\ \A i \in 1..Len(doc.layers) : doc'.layers[i] = doc.layers[i]]_vars

\* a call has put a polyline on a layer that an earlier call had created, and
\* a text call has found its layer in place
C18_Witness ==
    /\ dxf_call.op = "add_contours_as_polylines"
    /\ dxf_call.count = 2
    /\ "WALL2CAD_SMALL" \in LayerNames(dxf_call.before.doc.layers)
    /\ "WALL2CAD_TEXT" \in LayerNames(dxf_call.before.doc.layers)
    /\ msp[Len(msp)].layer = "WALL2CAD_SMALL"
    /\ Len(doc.layers) = Len(dxf_call.before.doc.layers)

\* C19: add_contours_as_polylines returns the number of polylines it appended;
\* each appended polyline has at least 3 points and a layer of the document;
\* they come in input order; a contour that has no 3 points, or whose
\* conversion raises, or that is missing, is not among them; in a document
\* that takes polylines every other contour is.
Appended == SubSeq(msp, Len(dxf_call.before.msp) + 1, Len(msp))
Unusable(data, a) ==
    \/ "contour" \notin data.keys
    \/ convert_contour_points(data.contour, a.scale_factor, a.image_height).raised
    \/ Len(data.contour.pts) < 3
C19_CountMatchesAppended ==
    (dxf_call.op = "add_contours_as_polylines" /\ ~dxf_call.before.doc.none) =>
        /\ Len(msp) >= Len(dxf_call.before.msp)
        /\ SubSeq(msp, 1, Len(dxf_call.before.msp)) = dxf_call.before.msp
        /\ dxf_call.count = Len(Appended)
        /\ \A k \in 1..Len(Appended) :
              /\ Appended[k].dxftype = "LWPOLYLINE"
              /\ Len(Appended[k].points) >= 3
              /\ Appended[k].layer \in LayerNames(doc.layers)
              /\ Appended[k].source \in 1..Len(dxf_call.contour_data)
              /\ ~Unusable(dxf_call.contour_data[Appended[k].source], dxf_call.arg)
              /\ \A j \in 1..Len(Appended) :
                    j < k => Appended[j].source < Appended[k].source
        /\ SupportsLwPolyline(doc.dxfversion) =>
              \A i \in 1..Len(dxf_call.contour_data) :
                  ~Unusable(dxf_call.contour_data[i], dxf_call.arg)
                     => \E k \in 1..Len(Appended) : Appended[k].source = i

\* a contour of 2 points was skipped and the contour after it was appended
C19_Witness ==
    /\ dxf_call.op = "add_contours_as_polylines"
    /\ Len(dxf_call.contour_data) = 2
    /\ Len(dxf_call.contour_data[1].contour.pts) = 2
    /\ dxf_call.count = 1
    /\ Len(msp) = Len(dxf_call.before.msp) + 1
    /\ msp[Len(msp)].source = 2

(***************************************************************************)
(* SpecFill: _fill_holes applied again and again to a binary mask          *)
(***************************************************************************)
MaxFills == 2          \* number of successive calls
MaxFillCells == 12     \* the masks tried have their foreground in the first
                       \* MaxFillCells cells of the image, in scan order

FillCells == {c \in Cells : c[1] * GridW + c[2] < MaxFillCells}

InitFill ==
    /\ WorkerIdle
    /\ MaskIdle
    /\ ContoursIdle
    /\ FnIdle
    /\ DxfIdle
    /\ ConverterIdle
    /\ PipelineIdle
    /\ UiIdle
    /\ \E S \in SUBSET FillCells : fh_mask = GridOf(S, 255)
    /\ fh_prev = <<>>
    /\ fh_calls = 0

\* mask = self._fill_holes(mask)
FH_FillHoles ==
    /\ fh_calls < MaxFills
    /\ fh_mask' = fill_holes(fh_mask)
    /\ fh_prev' = Append(fh_prev, fh_mask)
    /\ fh_calls' = fh_calls + 1
    /\ UNCHANGED <<workerVars, maskVars, contourVars, fnVars, dxfVars, converterVars, pl_pc, uiVars>>

NextFill == FH_FillHoles

SpecFill == InitFill /\ [][NextFill]_vars

\* C16: _fill_holes is idempotent: any call after the first returns the grid
\* it was given.
C16_FillHolesIdempotent ==
    fh_calls >= 2 => fh_mask = fh_prev[Len(fh_prev)]

\* the first call filled at least one background cell and the second call
\* was made on its result
C16_Witness ==
    /\ fh_calls = 2
    /\ \E c \in Cells : fh_prev[1][c] = 0 /\ fh_prev[2][c] = 255
    /\ \E c \in Cells : fh_prev[2][c] = 0
    /\ fh_mask = fh_prev[2]

(***************************************************************************)
(* DXFConverter (wall2cad_mvp/dxf_converter.py): export_masks_to_dxf.      *)
(* A mask record is [has_segmentation, segmentation, area, predicted_iou], *)
(* predicted_iou in hundredths.                                            *)
(***************************************************************************)
\* (mask.astype(np.uint8)) * 255: both the cast and the product wrap modulo 256
ConverterUint8(seg) ==
    Array([c \in Cells |-> ((seg.px[c] % 256) * 255) % 256])

\* cv2.findContours(mask_uint8, RETR_EXTERNAL, CHAIN_APPROX_TC89_L1): the same
\* borders as with CHAIN_APPROX_SIMPLE, each reduced to a selection of its
\* turning points.  Which ones the Teh-Chin approximation keeps is left open:
\* every non-empty selection of every border is an outcome.
RECURSIVE ApproximatedFrom(_, _)
ApproximatedFrom(contours, i) ==
    IF i > Len(contours) THEN {<<>>}
    ELSE {<<c>> \o rest : c \in Selections(contours[i]),
                          rest \in ApproximatedFrom(contours, i + 1)}
findContoursTC89(g) == ApproximatedFrom(findContours(g), 1)

\* index as three digits at least: f"{index:03d}"
Index03(index) ==
    IF index < 10 THEN "00" \o ToString(index)
    ELSE IF index < 100 THEN "0" \o ToString(index)
    ELSE ToString(index)

\* DXFConverter._get_layer_name(mask_data, index)
SizeCategory(area) ==
    IF area > 10000 THEN "Large" ELSE IF area > 1000 THEN "Medium" ELSE "Small"
Quality(predicted_iou) ==
    IF predicted_iou > 90 THEN "High" ELSE IF predicted_iou > 70 THEN "Med" ELSE "Low"
converter_get_layer_name(mask_data, index) ==
    SizeCategory(mask_data.area) \o "_" \o Quality(mask_data.predicted_iou)
        \o "_" \o Index03(index)

\* dxf_converter.py:61-71: the y axis flipped about the image height, and the
\* first point repeated at the end when the contour is not closed already
FlipPoints(pts, height) == [k \in 1..Len(pts) |-> <<pts[k][1], height - pts[k][2]>>]
Closed(points) ==
    IF Len(points) > 2 /\ points[1] # points[Len(points)]
    THEN Append(points, points[1]) ELSE points

\* one contour (dxf_converter.py:54-89) on the state st = [layers, msp, count] of
\* the export: skipped when squeeze leaves fewer than 3 rows of 2 numbers
ExportContour(st, contour, mask_data, i, height) ==
    IF Len(contour.pts) < 3 THEN st
    ELSE [layers |-> IF converter_get_layer_name(mask_data, i) \in LayerNames(st.layers)
                     THEN st.layers
                     ELSE Append(st.layers,
                                 [name |-> converter_get_layer_name(mask_data, i)]),
          msp |-> Append(st.msp,
                         [layer |-> converter_get_layer_name(mask_data, i),
                          points |-> Closed(FlipPoints(contour.pts, height)),
                          mask |-> i]),
          count |-> st.count + 1]

RECURSIVE ExportContoursFrom(_, _, _, _, _, _)
ExportContoursFrom(st, contours, k, mask_data, i, height) ==
    IF k > Len(contours) THEN st
    ELSE ExportContoursFrom(ExportContour(st, contours[k], mask_data, i, height),
                            contours, k + 1, mask_data, i, height)

(***************************************************************************)
(* SpecConverter: one call of export_masks_to_dxf, one mask per step       *)
(***************************************************************************)
MaxConverterMasks == 2

\* two separate corners of three pixels, a 2x2 square, a single pixel, the
\* full image with area and score on the thresholds, and a record without
\* 'segmentation'
ConverterMasks ==
    { [has_segmentation |-> TRUE, area |-> 6, predicted_iou |-> 95,
       segmentation |-> Seg("bool", {<<0, 0>>, <<0, 1>>, <<1, 0>>,
                                     <<1, 3>>, <<2, 3>>, <<2, 2>>}, 1)],
      [has_segmentation |-> TRUE, area |-> 5000, predicted_iou |-> 80,
       segmentation |-> Seg("bool", {<<0, 0>>, <<0, 1>>, <<1, 0>>, <<1, 1>>}, 1)],
      [has_segmentation |-> TRUE, area |-> 50000, predicted_iou |-> 50,
       segmentation |-> Seg("bool", {<<1, 1>>}, 1)],
      [has_segmentation |-> TRUE, area |-> 10000, predicted_iou |-> 90,
       segmentation |-> Seg("uint8", Cells, 255)],
      [has_segmentation |-> FALSE, area |-> 0, predicted_iou |-> 0,
       segmentation |-> NoSeg] }
ConverterMaskLists ==
    UNION {[1..n -> ConverterMasks] : n \in 0..MaxConverterMasks}

InitConverter ==
    /\ WorkerIdle
    /\ MaskIdle
    /\ FillIdle
    /\ ContoursIdle
    /\ FnIdle
    /\ DxfIdle
    /\ PipelineIdle
    /\ UiIdle
    /\ cv_masks \in ConverterMaskLists
    /\ cv_layers = <<>>
    /\ cv_msp = <<>>
    /\ cv_out = [pc |-> "call", i |-> 0, contour_count |-> 0, saved |-> FALSE]

ConverterStep ==
    UNCHANGED <<cv_masks, workerVars, maskVars, fillVars, contourVars, fnVars,
                dxfVars, pl_pc, uiVars>>

\* dxf_converter.py:26-39: doc = ezdxf.new('R2010'), which holds the layers "0"
\* and "Defpoints"
CV_NewDocument ==
    /\ cv_out.pc = "call"
    /\ cv_layers' = <<[name |-> "0"], [name |-> "Defpoints"]>>
    /\ cv_msp' = <<>>
    /\ cv_out' = [cv_out EXCEPT !.pc = "loop", !.i = 0, !.contour_count = 0]
    /\ ConverterStep

\* one iteration of the loop over the masks (dxf_converter.py:41-89);
\* mask_data['segmentation'] on a record without the key raises KeyError,
\* which nothing catches
CV_Mask ==
    /\ cv_out.pc = "loop"
    /\ cv_out.i < Len(cv_masks)
    /\ IF ~cv_masks[cv_out.i + 1].has_segmentation
       THEN /\ cv_out' = [cv_out EXCEPT !.pc = "raised"]
            /\ UNCHANGED <<cv_layers, cv_msp>>
       ELSE \E contours \in findContoursTC89(
                    ConverterUint8(cv_masks[cv_out.i + 1].segmentation)) :
              LET st == ExportContoursFrom(
                            [layers |-> cv_layers, msp |-> cv_msp,
                             count |-> cv_out.contour_count],
                            contours, 1, cv_masks[cv_out.i + 1], cv_out.i, GridH)
              IN /\ cv_layers' = st.layers
                 /\ cv_msp' = st.msp
                 /\ cv_out' = [cv_out EXCEPT !.i = cv_out.i + 1,
                                             !.contour_count = st.count]
    /\ ConverterStep

\* doc.saveas(output_path) and return contour_count (dxf_converter.py:92-95);
\* an error of saveas leaves the call
CV_Save ==
    /\ cv_out.pc = "loop"
    /\ cv_out.i = Len(cv_masks)
    /\ \E written \in BOOLEAN :
          cv_out' = [cv_out EXCEPT !.pc = IF written THEN "done" ELSE "raised",
                                   !.saved = written]
    /\ UNCHANGED <<cv_layers, cv_msp>>
    /\ ConverterStep

NextConverter == CV_NewDocument \/ CV_Mask \/ CV_Save

SpecConverter == InitConverter /\ [][NextConverter]_vars

\* C20: in one export, no two contours are assigned the same layer name, and
\* each name is the size bucket, the quality bucket and a numeric index.
C20_LayerNamesUnique ==
    cv_out.pc = "done" =>
        \A j \in 1..Len(cv_msp) :
            /\ \E index \in 0..Len(cv_msp) :
                  cv_msp[j].layer
                     = SizeCategory(cv_masks[cv_msp[j].mask + 1].area) \o "_"
                         \o Quality(cv_masks[cv_msp[j].mask + 1].predicted_iou)
                         \o "_" \o Index03(index)
            /\ \A k \in 1..Len(cv_msp) : cv_msp[j].layer = cv_msp[k].layer => j = k


(***************************************************************************)
(* SpecPipeline: a caller running process_masks, extract_contours,         *)
(* simplify_contours, create_document, add_contours_as_polylines, save and *)
(* get_export_stats in a row, on masks that are filled rectangles in an    *)
(* image of MaxSide x MaxSide pixels                                       *)
(***************************************************************************)
\* A rectangle mask is [x, y, w, h, cut]: the w x h pixels whose first column
\* is x and first row is y, without its four corner pixels when cut; w = 0
\* is the empty mask.  The rectangles are at least 5 pixels wide and high and
\* lie at least 3 pixels inside the image, so that no window of the 5x5
\* kernels below reaches the image border.
RectPixels(s) == s.w * s.h - (IF s.cut THEN 4 ELSE 0)

\* _remove_noise: the rectangle is one connected component
RectRemoveNoise(s, min_area) ==
    IF RectPixels(s) >= min_area THEN s ELSE [s EXCEPT !.w = 0, !.h = 0]

\* _fill_holes: closing a filled rectangle with the 5x5 square gives it back
RectFillHoles(s) == s

\* _smooth_mask at strength 1.0.  A pixel k steps inside a side of the
\* rectangle has the part EdgeCover(k) of the kernel over the rectangle along
\* that axis, so the pixel i steps from one side and j steps from the next
\* blurs to 255 * EdgeCover(i) * EdgeCover(j); it is kept when the integer
\* part is above 127.  Only the four corner pixels (0 and 0) are lost; a
\* pixel outside the rectangle blurs to 76 at most.
EdgeCover(k) ==
    CASE k = 0 -> GaussWeight(0) + GaussWeight(1) + GaussWeight(2)
      [] k = 1 -> GaussWeight(-1) + GaussWeight(0) + GaussWeight(1) + GaussWeight(2)
      [] OTHER -> GaussWeight(-2) + GaussWeight(-1) + GaussWeight(0)
                      + GaussWeight(1) + GaussWeight(2)
KeptAt(i, j) == (255 * EdgeCover(i) * EdgeCover(j)) \div 1000000 > 127
RectSmoothMask(s) ==
    IF s.w = 0 THEN s ELSE [s EXCEPT !.cut = ~KeptAt(0, 0)]

\* _get_bbox
RectBbox(s) ==
    IF s.w = 0 THEN <<0, 0, 0, 0>> ELSE <<s.x, s.y, s.w - 1, s.h - 1>>

\* _process_single_mask on a bool rectangle mask
RectSmoothed(s, o) == IF o.smoothing THEN RectSmoothMask(s) ELSE s
RectFilled(s, o) == RectSmoothed(IF o.fill_holes THEN RectFillHoles(s) ELSE s, o)
RectCleaned(s, o) ==
    RectFilled(IF o.noise_removal THEN RectRemoveNoise(s, o.min_area) ELSE s, o)
RectProcessSingle(seg, o) ==
    IF RectPixels(seg.rect) < o.min_area THEN [none |-> TRUE, rect |-> seg.rect]
    ELSE [none |-> FALSE, rect |-> RectCleaned(seg.rect, o)]

\* the loop of process_masks
RectUpdated(mask_data, s) ==
    [mask_data EXCEPT !.segmentation = [dtype |-> "bool", rect |-> s],
                      !.area = RectPixels(s),
                      !.bbox = RectBbox(s)]
RectProcessed(mask_data, processed) ==
    IF processed.none THEN <<>> ELSE <<RectUpdated(mask_data, processed.rect)>>

RECURSIVE RectProcessFrom(_, _, _)
RectProcessFrom(masks, i, o) ==
    IF i > Len(masks) THEN <<>>
    ELSE RectProcessed(masks[i], RectProcessSingle(masks[i].segmentation, o))
         \o RectProcessFrom(masks, i + 1, o)

\* cv2.findContours(mask_uint8, RETR_EXTERNAL, CHAIN_APPROX_SIMPLE) on a
\* rectangle mask: the border is followed from its first pixel in scan order,
\* down the left side first; only the turning points are kept
RectContours(s) ==
    IF s.w = 0 THEN <<>>
    ELSE IF s.cut
    THEN <<[ndim |-> 3,
            pts |-> << <<s.x + 1, s.y>>, <<s.x, s.y + 1>>,
                       <<s.x, s.y + s.h - 2>>, <<s.x + 1, s.y + s.h - 1>>,
                       <<s.x + s.w - 2, s.y + s.h - 1>>, <<s.x + s.w - 1, s.y + s.h - 2>>,
                       <<s.x + s.w - 1, s.y + 1>>, <<s.x + s.w - 2, s.y>> >>]>>
    ELSE <<[ndim |-> 3,
            pts |-> << <<s.x, s.y>>, <<s.x, s.y + s.h - 1>>,
                       <<s.x + s.w - 1, s.y + s.h - 1>>, <<s.x + s.w - 1, s.y>> >>]>>

\* the loop of extract_contours
RECURSIVE RectExtractFrom(_, _)
RectExtractFrom(masks, i) ==
    IF i > Len(masks) THEN <<>>
    ELSE Extracted(i - 1, masks[i], RectContours(masks[i].segmentation.rect))
         \o RectExtractFrom(masks, i + 1)

\* the masks of the scenario: pixel counts 50, 5000 and 150000, in either
\* orientation
Rect(w, h) == [x |-> 10, y |-> 20, w |-> w, h |-> h, cut |-> FALSE]
PipelineRects ==
    { << Rect(5, 10), Rect(50, 100), Rect(300, 500) >>,
      << Rect(10, 5), Rect(100, 50), Rect(500, 300) >> }
PipelineMasks ==
    {[i \in 1..3 |-> [tag |-> i,
                      has_segmentation |-> TRUE,
                      segmentation |-> [dtype |-> "bool", rect |-> r[i]],
                      area |-> RectPixels(r[i]),
                      bbox |-> <<r[i].x, r[i].y, r[i].w, r[i].h>>]]
        : r \in PipelineRects}

\* the defaults of add_contours_as_polylines
DefaultContourArgs ==
    [scale_factor |-> 1, image_height |-> [none |-> TRUE, v |-> 0],
     layer_prefix |-> "WALL2CAD"]
OutputPath == [dirname |-> "out", basename |-> "walls.dxf"]

InitPipeline ==
    /\ WorkerIdle
    /\ FillIdle
    /\ FnIdle
    /\ ConverterIdle
    /\ DxfInit
    /\ units_INCH \in BOOLEAN
    /\ mp_in \in [masks : PipelineMasks, smoothing : BOOLEAN, noise_removal : {TRUE},
                  fill_holes : {FALSE}, min_area : {100}]
    /\ processed_masks = <<>>
    /\ mp_pc = "done"
    /\ cd_masks = [none |-> TRUE, list |-> <<>>]
    /\ contour_data = <<>>
    /\ epsilon_factor = 20
    /\ simplified_data = <<>>
    /\ cd_pc = "done"
    /\ pl_pc = "process_masks"
    /\ UiIdle

PipelineOther == UNCHANGED <<workerVars, fillVars, fnVars, converterVars, uiVars>>

\* processed = processor.process_masks(masks, min_area=100)
PL_ProcessMasks ==
    /\ pl_pc = "process_masks"
    /\ processed_masks' = RectProcessFrom(mp_in.masks, 1, mp_in)
    /\ pl_pc' = "extract_contours"
    /\ UNCHANGED <<mp_in, mp_pc, contourVars, dxfVars>>
    /\ PipelineOther

\* contours = processor.extract_contours()
PL_ExtractContours ==
    /\ pl_pc = "extract_contours"
    /\ contour_data' = RectExtractFrom(processed_masks, 1)
    /\ pl_pc' = "simplify_contours"
    /\ UNCHANGED <<maskVars, cd_masks, epsilon_factor, simplified_data, cd_pc, dxfVars>>
    /\ PipelineOther

\* simplified = processor.simplify_contours(contours)
PL_SimplifyContours ==
    /\ pl_pc = "simplify_contours"
    /\ simplified_data' \in simplify_contours(contour_data, epsilon_factor)
    /\ pl_pc' = "create_document"
    /\ UNCHANGED <<maskVars, cd_masks, contour_data, epsilon_factor, cd_pc, dxfVars>>
    /\ PipelineOther

\* a call of the exporter, recorded as in SpecDxf
PipelineCalled(op, ok, count, stats, arg, data) ==
    /\ dxf_calls' = dxf_calls + 1
    /\ dxf_call' = [op |-> op, ok |-> ok, count |-> count, stats |-> stats,
                    arg |-> arg, contour_data |-> data,
                    before |-> [doc |-> doc, msp |-> msp]]
    /\ UNCHANGED <<units_INCH, maskVars, contourVars>>
    /\ PipelineOther

\* exporter.create_document(); the caller goes on when it returns True
PL_CreateDocument ==
    /\ pl_pc = "create_document"
    /\ doc' = create_document("R2018", "mm").doc
    /\ msp' = create_document("R2018", "mm").msp
    /\ pl_pc' = IF create_document("R2018", "mm").ok
                THEN "add_contours_as_polylines" ELSE "failed"
    /\ PipelineCalled("create_document", create_document("R2018", "mm").ok, 0,
                      NoStats, [dxf_version |-> "R2018", units_type |-> "mm"], <<>>)
    /\ UNCHANGED disk

\* exporter.add_contours_as_polylines(simplified)
PL_AddContours ==
    /\ pl_pc = "add_contours_as_polylines"
    /\ doc' = [doc EXCEPT !.layers =
                  add_contours_as_polylines(simplified_data, DefaultContourArgs).layers]
    /\ msp' = add_contours_as_polylines(simplified_data, DefaultContourArgs).msp
    /\ pl_pc' = "save"
    /\ PipelineCalled("add_contours_as_polylines", TRUE,
                      add_contours_as_polylines(simplified_data, DefaultContourArgs).count,
                      NoStats, DefaultContourArgs, simplified_data)
    /\ UNCHANGED disk

\* exporter.save(path); the caller goes on when it returns True
PL_Save ==
    \E written \in BOOLEAN :
        /\ pl_pc = "save"
        /\ disk' = IF CanSave(OutputPath) /\ written THEN Saved(OutputPath) ELSE disk
        /\ pl_pc' = IF CanSave(OutputPath) /\ written
                    THEN "get_export_stats" ELSE "failed"
        /\ PipelineCalled("save", CanSave(OutputPath) /\ written, 0, NoStats,
                          [path |-> OutputPath, writable |-> written], <<>>)
        /\ UNCHANGED <<doc, msp>>

\* exporter.get_export_stats()
PL_Stats ==
    /\ pl_pc = "get_export_stats"
    /\ pl_pc' = "done"
    /\ PipelineCalled("get_export_stats", TRUE, 0, get_export_stats, <<>>, <<>>)
    /\ UNCHANGED <<doc, msp, disk>>

NextPipeline ==
    \/ PL_ProcessMasks
    \/ PL_ExtractContours
    \/ PL_SimplifyContours
    \/ PL_CreateDocument
    \/ PL_AddContours
    \/ PL_Save
    \/ PL_Stats

SpecPipeline == InitPipeline /\ [][NextPipeline]_vars

\* the layers of the polylines in the model space, in the order they were added
PolylineLayers ==
    [k \in 1..Len(msp) |-> msp[k].layer]
Usable(data) == \A k \in 1..Len(data) : Len(data[k].contour.pts) >= 3

\* C15: at the end of the scenario (masks of areas 50, 5000 and 150000,
\* min_area = 100, the file saved and the statistics returned) process_masks
\* has dropped the area-50 mask and kept the two others, extraction and
\* simplification have yielded exactly 2 contours, and, when both simplified
\* contours have the 3 points a polyline needs, the polylines lie on
\* WALL2CAD_MEDIUM and WALL2CAD_XLARGE and the statistics report polylines = 2
\* and layers = 2
C15_EndToEnd ==
    pl_pc = "done" =>
        /\ [k \in 1..Len(processed_masks) |-> processed_masks[k].tag] = <<2, 3>>
        /\ Len(contour_data) = 2
        /\ Len(simplified_data) = 2
        /\ Usable(simplified_data) =>
              /\ PolylineLayers = <<"WALL2CAD_MEDIUM", "WALL2CAD_XLARGE">>
              /\ dxf_call.stats.polylines = 2
        /\ dxf_call.stats.layers = 2


(***************************************************************************)
(* Further claims about the worker, checked under Spec                     *)
(***************************************************************************)
\* the start event of a task kind
StartEventOf(task) ==
    IF task = "load_model" THEN "model_load_started" ELSE "segmentation_started"

\* C25: no task request is lost.  When no request method is executing and
\* the worker thread has stopped running, the task of the last accepted
\* request (still held in current_task) has had its start event emitted by
\* the last run of the thread.
C25_NoRequestLost ==
    (ui.pc = "idle" /\ ~isRunning /\ current_task # "None")
        => \E i \in 1..Len(events) : events[i].sig = StartEventOf(current_task)

\* C26: when the last run of the thread was a model-loading run and has
\* ended, the worker reports a loaded model (is_model_loaded) only if that
\* run ended with model_load_finished(True, ...).
is_model_loaded == is_loaded(sam_processor)
C26_LoadedOnlyAfterSuccess ==
    (~isRunning /\ run.task = "load_model" /\ is_model_loaded)
        => /\ events # <<>>
           /\ Last(events) = Ev("model_load_finished", 0, TRUE)

\* C27: every mask handed to segmentation_finished(True, masks, ...) has the
\* height and width of the image the run read from input_image.
C27_MasksHaveImageSize ==
    \A a \in Acts :
        pc[a] = "s218" =>
            \A i \in 1..Len(loc[a].masks) : loc[a].masks[i].shape = loc[a].hw


(***************************************************************************)
(* A further claim about process_masks, checked under SpecMasks            *)
(***************************************************************************)
\* C23: with min_area >= 1, every mask process_masks has emitted has a
\* non-empty grid: its recomputed area is at least 1 (and so its bbox is not
\* the [0, 0, 0, 0] of an empty mask), whichever of noise_removal, fill_holes
\* and smoothing are enabled.
C23_EmittedMasksNonEmpty ==
    (mp_pc = "done" /\ mp_in.min_area >= 1)
        => \A j \in 1..Len(processed_masks) :
              /\ processed_masks[j].area >= 1
              /\ Foreground(processed_masks[j].segmentation.px) # {}


(***************************************************************************)
(* A further claim about DXFExporter.save, checked under SpecDxf           *)
(***************************************************************************)
\* the file the last save call was asked to write is on disk with the
\* document as it is
FileWritten ==
    \E f \in disk : /\ f.path = dxf_call.arg.path
                    /\ f.doc = doc
                    /\ f.msp = msp

\* C22: save(path) on an existing document returns True and has written the
\* file for every writable target, a bare file name with no directory part
\* included; and whenever save returns True the file has been written.
C22_SaveCreatesDirectory ==
    dxf_call.op = "save" =>
        /\ (~dxf_call.before.doc.none /\ dxf_call.arg.writable)
              => (dxf_call.ok /\ FileWritten)
        /\ dxf_call.ok => FileWritten


(***************************************************************************)
(* The two QThreads of the MVP window (wall2cad_mvp/ui_main.py).           *)
(* mvp.loader and mvp.worker are the positions of SAMModelLoader.run and   *)
(* SAMWorkerThread.run (the line about to be executed), mvp.levents and    *)
(* mvp.wevents the signals each thread object has emitted so far.          *)
(* SAMProcessor(), cv2.cvtColor on an unreadable image and generate_masks  *)
(* may raise; the except clause of each run() then emits error.            *)
(***************************************************************************)
MaxMvpRuns == 2

MvpImagePaths == {"plan_a.png", "plan_b.png"}

MEv(sig, pct) == [sig |-> sig, pct |-> pct]

MvpInit == [made |-> TRUE, loader |-> "s37", levents |-> <<>>,
            sam_processor |-> FALSE, current_image_path |-> "",
            worker |-> "none", image_path |-> "", wevents |-> <<>>,
            runs |-> 0]

MvpOther == UNCHANGED <<workerVars, maskVars, fillVars, contourVars, fnVars,
                        dxfVars, converterVars, pl_pc,
                        dlg, delivered, mw, panel, scanner>>

\* SAMModelLoader.run, the emit statements of lines 37-41, 45-46, 48, 49, 52
LoaderEmit ==
    [s37 |-> [ev |-> MEv("progress", 10), next |-> "s38"],
     s38 |-> [ev |-> MEv("status_update", 0), next |-> "s40"],
     s40 |-> [ev |-> MEv("progress", 30), next |-> "s41"],
     s41 |-> [ev |-> MEv("status_update", 0), next |-> "s43"],
     s45 |-> [ev |-> MEv("progress", 90), next |-> "s46"],
     s46 |-> [ev |-> MEv("status_update", 0), next |-> "s48"],
     s48 |-> [ev |-> MEv("finished", 0), next |-> "s49"],
     s49 |-> [ev |-> MEv("progress", 100), next |-> "done"],
     s52 |-> [ev |-> MEv("error", 0), next |-> "done"]]

LD_Emit ==
    /\ mvp.made
    /\ mvp.loader \in DOMAIN LoaderEmit
    /\ mvp' = [mvp EXCEPT !.levents = Append(@, LoaderEmit[mvp.loader].ev),
                          !.loader = LoaderEmit[mvp.loader].next]
    /\ MvpOther

\* line 43: sam_processor = SAMProcessor(); an exception goes to line 51-52
LD_NewProcessor ==
    /\ mvp.made
    /\ mvp.loader = "s43"
    /\ \E raised \in BOOLEAN :
          mvp' = [mvp EXCEPT !.loader = IF raised THEN "s52" ELSE "s45"]
    /\ MvpOther

\* on_model_loading_finished (ui_main.py 330-343), the slot of the loader's
\* finished signal: self.sam_processor = sam_processor
MV_OnModelLoadingFinished ==
    /\ mvp.made
    /\ ~mvp.sam_processor
    /\ \E i \in 1..Len(mvp.levents) : mvp.levents[i].sig = "finished"
    /\ mvp' = [mvp EXCEPT !.sam_processor = TRUE]
    /\ MvpOther

\* load_image (ui_main.py 355-399) with the file the user picked; the load
\* button is enabled by on_model_loading_finished and disabled while an
\* image is processed
MV_LoadImage ==
    /\ mvp.made
    /\ mvp.sam_processor
    /\ mvp.worker \in {"none", "done"}
    /\ \E file_path \in MvpImagePaths :
          mvp' = [mvp EXCEPT !.current_image_path = file_path]
    /\ MvpOther

\* run_segmentation / process_image (ui_main.py 401-438): rejected while
\* no image is loaded or self.sam_processor is unset; creates and starts a
\* new SAMWorkerThread(self.sam_processor, image_path)
MV_RunSegmentation ==
    /\ mvp.made
    /\ mvp.current_image_path # ""
    /\ mvp.sam_processor
    /\ mvp.worker \in {"none", "done"}
    /\ mvp.runs < MaxMvpRuns
    /\ mvp' = [mvp EXCEPT !.worker = "s68", !.wevents = <<>>,
                          !.image_path = mvp.current_image_path,
                          !.runs = @ + 1]
    /\ MvpOther

\* SAMWorkerThread.run, the emit statements of lines 68, 72, 75, 76, 77, 80
WorkerEmit ==
    [s68 |-> [ev |-> MEv("progress", 10), next |-> "s69"],
     s72 |-> [ev |-> MEv("progress", 30), next |-> "s73"],
     s75 |-> [ev |-> MEv("progress", 90), next |-> "s76"],
     s76 |-> [ev |-> MEv("finished", 0), next |-> "s77"],
     s77 |-> [ev |-> MEv("progress", 100), next |-> "done"],
     s80 |-> [ev |-> MEv("error", 0), next |-> "done"]]

WK_Emit ==
    /\ mvp.made
    /\ mvp.worker \in DOMAIN WorkerEmit
    /\ mvp' = [mvp EXCEPT !.wevents = Append(@, WorkerEmit[mvp.worker].ev),
                          !.worker = WorkerEmit[mvp.worker].next]
    /\ MvpOther

\* lines 69-70: cv2.imread / cv2.cvtColor (raises when imread returned None)
WK_ReadImage ==
    /\ mvp.made
    /\ mvp.worker = "s69"
    /\ \E raised \in BOOLEAN :
          mvp' = [mvp EXCEPT !.worker = IF raised THEN "s80" ELSE "s72"]
    /\ MvpOther

\* line 73: masks = self.sam_processor.generate_masks(image)
WK_GenerateMasks ==
    /\ mvp.made
    /\ mvp.worker = "s73"
    /\ \E raised \in BOOLEAN :
          mvp' = [mvp EXCEPT !.worker = IF raised THEN "s80" ELSE "s75"]
    /\ MvpOther

InitMvp ==
    /\ WorkerIdle
    /\ MaskIdle
    /\ FillIdle
    /\ ContoursIdle
    /\ FnIdle
    /\ DxfIdle
    /\ ConverterIdle
    /\ PipelineIdle
    /\ DialogIdle
    /\ WindowIdle
    /\ PanelIdle
    /\ ScannerIdle
    /\ mvp = MvpInit

NextMvp ==
    \/ LD_Emit
    \/ LD_NewProcessor
    \/ MV_OnModelLoadingFinished
    \/ MV_LoadImage
    \/ MV_RunSegmentation
    \/ WK_Emit
    \/ WK_ReadImage
    \/ WK_GenerateMasks

SpecMvp == InitMvp /\ [][NextMvp]_vars

IsMvpTerminal(e) == e.sig \in {"finished", "error"}

TerminalLast(evs) == \A i \in 1..Len(evs) : IsMvpTerminal(evs[i]) => i = Len(evs)

\* C24: in the MVP threads SAMModelLoader and SAMWorkerThread every event of
\* a run is emitted before the run's terminal event (finished or error):
\* in each thread's emitted sequence a terminal event is the last one.
C24_TerminalIsLast ==
    /\ TerminalLast(mvp.levents)
    /\ TerminalLast(mvp.wevents)


(***************************************************************************)
(* The main window with its model-loading dialog (ui/main_window.py,       *)
(* ui/progress_dialog.py) on top of the worker thread.                     *)
(* The worker's signals are queued to the interactive thread: delivered is *)
(* the number of signals of the current run whose slot has run, and a slot *)
(* runs only while the interactive thread is in no other method            *)
(* (ui.pc = "idle").  dlg is the dialog self.progress_dialog refers to.    *)
(* The dialog is modal: while it is visible the user reaches nothing but   *)
(* its cancel button and its window-close button.  A further load request  *)
(* is followed once the signals emitted so far have been delivered.        *)
(***************************************************************************)
MaxLoads == 2

\* 'vit_b' in filename, for the sample paths
NameContains(p, t) == p = GoodPath /\ t = "vit_h"

\* MainWindow.load_sam_model, lines 309-318: the model type from the file name
ModelTypeOf(p) ==
    IF NameContains(p, "vit_b") THEN "vit_b"
    ELSE IF NameContains(p, "vit_l") THEN "vit_l"
    ELSE IF NameContains(p, "vit_h") THEN "vit_h"
    ELSE "vit_h"

\* MainWindow.__init__: self.current_model_info
InitialModelInfo == [keys |-> {"loaded", "path", "type"}, loaded |-> FALSE,
                     path |-> "", type |-> "", model_path |-> "",
                     model_type |-> ""]

\* SAMWorkerThread.get_model_info
get_model_info ==
    IF sam_processor.made /\ is_loaded(sam_processor)
    THEN [keys |-> {"loaded", "model_type", "model_path", "device_info"},
          loaded |-> TRUE, path |-> "", type |-> "",
          model_path |-> model_path, model_type |-> model_type]
    ELSE [keys |-> {"loaded"}, loaded |-> FALSE, path |-> "", type |-> "",
          model_path |-> "", model_type |-> ""]

WindowInit == [made |-> TRUE, current_model_info |-> InitialModelInfo,
               loads |-> 0]

DialogOther == UNCHANGED <<maskVars, fillVars, contourVars, fnVars, dxfVars,
                           converterVars, pl_pc, panel, scanner, mvp>>

\* MainWindow.load_sam_model(model_path) up to the QMutexLocker of
\* SAMWorkerThread.load_sam_model
MW_LoadSamModel ==
    /\ mw.made
    /\ ui.pc = "idle" /\ mutex = "free"
    /\ ~dlg.visible
    /\ delivered = Len(events)
    /\ mw.loads < MaxLoads
    /\ \E p \in Paths :
          ui' = [pc |-> "L57", op |-> "load_sam_model", a |-> p,
                 b |-> ModelTypeOf(p), img |-> NoImage, busy |-> BodyActive]
    /\ mutex' = "ui"
    /\ mw' = [mw EXCEPT !.loads = @ + 1]
    /\ UNCHANGED <<workerFields, sam_processor, sam_registry, pc, loc, events, run,
                   dlg, delivered>>
    /\ DialogOther

\* sam_worker.py lines 62-63 reached from the main window: the signals of a
\* thread that starts are counted from zero
MW_Start ==
    /\ mw.made
    /\ ui.pc = "L62"
    /\ StartThread
    /\ UiStep("L65")
    /\ delivered' = IF isRunning THEN delivered ELSE 0
    /\ UNCHANGED <<workerFields, sam_processor, mutex, sam_registry, dlg, mw>>
    /\ DialogOther

NextSignal == events[delivered + 1]
SlotReady == mw.made /\ ui.pc = "idle" /\ delivered < Len(events)

\* ProgressDialog.__init__ / ModelLoadingDialog.__init__ and show()
NewDialog == [exists |-> TRUE, visible |-> TRUE, cancelled |-> FALSE, value |-> 0,
              completed |-> FALSE, success |-> FALSE, btn_enabled |-> TRUE,
              btn_slot |-> "request_cancel", emitted |-> 0, late |-> FALSE]

\* on_model_load_started
MW_OnModelLoadStarted ==
    /\ SlotReady
    /\ NextSignal.sig = "model_load_started"
    /\ dlg' = NewDialog
    /\ delivered' = delivered + 1
    /\ UNCHANGED <<workerVars, mw>>
    /\ DialogOther

\* on_model_load_progress -> ProgressDialog.update_progress
MW_OnModelLoadProgress ==
    /\ SlotReady
    /\ NextSignal.sig = "model_load_progress"
    /\ dlg' = IF dlg.exists THEN [dlg EXCEPT !.value = NextSignal.pct] ELSE dlg
    /\ delivered' = delivered + 1
    /\ UNCHANGED <<workerVars, mw>>
    /\ DialogOther

\* ProgressDialog.set_completed(success, message)
set_completed(d, success) ==
    [d EXCEPT !.value = IF success THEN 100 ELSE @,
              !.completed = TRUE,
              !.success = success,
              !.btn_enabled = TRUE,
              !.btn_slot = "accept"]

\* on_model_load_finished
MW_OnModelLoadFinished ==
    /\ SlotReady
    /\ NextSignal.sig = "model_load_finished"
    /\ dlg' = IF dlg.exists THEN set_completed(dlg, NextSignal.ok) ELSE dlg
    /\ mw' = IF NextSignal.ok
             THEN [mw EXCEPT !.current_model_info = get_model_info]
             ELSE mw
    /\ delivered' = delivered + 1
    /\ UNCHANGED workerVars
    /\ DialogOther

\* ProgressDialog.request_cancel when self.cancelled is False; the emitted
\* cancel_requested is connected directly to SAMWorkerThread.stop_processing,
\* which takes the mutex and continues at line 91
RequestCancel ==
    /\ dlg' = [dlg EXCEPT !.cancelled = TRUE, !.btn_enabled = FALSE,
                          !.emitted = @ + 1,
                          !.late = @ \/ dlg.completed]
    /\ ui' = [pc |-> "S91", op |-> "stop_processing", a |-> "", b |-> "",
              img |-> NoImage, busy |-> BodyActive]
    /\ mutex' = "ui"

\* a click on cancel_btn: request_cancel, or accept once set_completed has
\* reconnected the button
DLG_ClickCancel ==
    /\ mw.made
    /\ ui.pc = "idle" /\ mutex = "free"
    /\ dlg.visible /\ dlg.btn_enabled
    /\ IF dlg.btn_slot = "accept"
       THEN /\ dlg' = [dlg EXCEPT !.visible = FALSE]
            /\ UNCHANGED <<ui, mutex>>
       ELSE IF ~dlg.cancelled
            THEN RequestCancel
            ELSE UNCHANGED <<dlg, ui, mutex>>
    /\ UNCHANGED <<workerFields, sam_processor, sam_registry, pc, loc, events, run,
                   delivered, mw>>
    /\ DialogOther

\* ProgressDialog.closeEvent: the user closes the dialog window
DLG_Close ==
    /\ mw.made
    /\ ui.pc = "idle" /\ mutex = "free"
    /\ dlg.visible
    /\ IF ~dlg.cancelled /\ dlg.value < 100
       THEN RequestCancel
       ELSE /\ dlg' = [dlg EXCEPT !.visible = FALSE]
            /\ UNCHANGED <<ui, mutex>>
    /\ UNCHANGED <<workerFields, sam_processor, sam_registry, pc, loc, events, run,
                   delivered, mw>>
    /\ DialogOther

InitDialog ==
    /\ WorkerInit
    /\ MaskIdle
    /\ FillIdle
    /\ ContoursIdle
    /\ FnIdle
    /\ DxfIdle
    /\ ConverterIdle
    /\ PipelineIdle
    /\ DialogIdle
    /\ PanelIdle
    /\ ScannerIdle
    /\ MvpIdle
    /\ mw = WindowInit

NextDialog ==
    \/ MW_LoadSamModel
    \/ UI_Load57 \/ UI_Load58 \/ UI_Load59 \/ UI_Load60
    \/ MW_Start
    \/ UI_Stop91 \/ UI_Stop92 \/ UI_Unlock
    \/ \E a \in Acts :
        \/ Run99(a) \/ EmitStarted(a) \/ Poll(a) \/ EmitProgress(a)
        \/ M_CheckFile(a) \/ M_FileMissing(a) \/ M_NewProcessor(a)
        \/ M_CheckDeps(a) \/ M_LoadModel(a) \/ M_Finish(a) \/ M_Failed(a)
    \/ MW_OnModelLoadStarted
    \/ MW_OnModelLoadProgress
    \/ MW_OnModelLoadFinished
    \/ DLG_ClickCancel
    \/ DLG_Close

SpecDialog == InitDialog /\ [][NextDialog]_vars

\* every signal the worker will emit has been emitted and its slot has run
LoadSettled ==
    /\ ~isRunning
    /\ ui.pc = "idle"
    /\ run.task = "load_model"
    /\ delivered = Len(events)

\* C21: once the model-loading dialog has been shown it reaches the completed
\* state however the task ends: when the worker thread has returned and every
\* signal it emitted has been handled, set_completed has run on the dialog
\* of that run.
C21_DialogCompletes ==
    (LoadSettled /\ dlg.exists) => dlg.completed

\* C28: a progress dialog emits cancel_requested at most once in its lifetime
\* and never after set_completed or set_error has run, whatever clicks and
\* window-close events follow.
C28_CancelOnceAndNotLate ==
    dlg.exists => (dlg.emitted <= 1 /\ ~dlg.late)


(***************************************************************************)
(* The property panel's SAM parameters (ui/property_panel.py) in front of  *)
(* the main window: every change of the model combo box or of a spin box   *)
(* runs emit_sam_params, whose signal runs MainWindow.on_sam_params_changed*)
(* in the same thread.  panel.combo holds the item data (model paths) of   *)
(* model_combo, panel.current the selected index, panel.spin the values of *)
(* two of the spin boxes (the four are connected alike), and panel.last    *)
(* what the latest on_sam_params_changed saw and did: the selected path,   *)
(* whether load_sam_model was called, and the model the window had recorded*)
(* as loaded (the model_path of get_model_info() taken after the last      *)
(* successful load).                                                       *)
(***************************************************************************)
SpinNames == {"points_per_side", "min_mask_region_area"}
SpinValues == [points_per_side |-> {32, 64}, min_mask_region_area |-> {100, 200}]

NoChange == [kind |-> "none", model_path |-> "", called |-> FALSE,
             loaded |-> FALSE, loaded_path |-> ""]

PanelInit(items) ==
    [made |-> TRUE, combo |-> items, current |-> 1,
     spin |-> [points_per_side |-> 32, min_mask_region_area |-> 100],
     last |-> NoChange]

\* PropertyPanel.get_selected_model_path
get_selected_model_path(pp) == pp.combo[pp.current]

\* dict.get(key, '') on self.current_model_info
InfoGet(info, key) == IF key \in info.keys THEN info[key] ELSE ""

\* on_sam_params_changed, line 300: the condition under which
\* load_sam_model(model_path) is called
LoadWanted(path) == path # "" /\ path # InfoGet(mw.current_model_info, "path")

\* emit_sam_params -> on_sam_params_changed -> load_sam_model -> the
\* QMutexLocker of SAMWorkerThread.load_sam_model, for the panel state pp
EmitSamParams(pp, kind) ==
    LET path == get_selected_model_path(pp)
        rec == [kind |-> kind, model_path |-> path, called |-> LoadWanted(path),
                loaded |-> mw.current_model_info.loaded,
                loaded_path |-> mw.current_model_info.model_path]
    IN /\ LoadWanted(path) => mw.loads < MaxLoads
       /\ panel' = [pp EXCEPT !.last = rec]
       /\ IF LoadWanted(path)
          THEN /\ ui' = [pc |-> "L57", op |-> "load_sam_model", a |-> path,
                         b |-> ModelTypeOf(path), img |-> NoImage,
                         busy |-> BodyActive]
               /\ mutex' = "ui"
               /\ mw' = [mw EXCEPT !.loads = @ + 1]
          ELSE UNCHANGED <<ui, mutex, mw>>

PanelReady ==
    /\ panel.made /\ mw.made
    /\ ui.pc = "idle" /\ mutex = "free"
    /\ ~dlg.visible
    /\ delivered = Len(events)

PanelOther ==
    UNCHANGED <<workerFields, sam_processor, sam_registry, pc, loc, events, run,
                maskVars, fillVars, contourVars, fnVars, dxfVars, converterVars,
                pl_pc, dlg, delivered, scanner, mvp>>

\* the user selects another item of model_combo (currentTextChanged)
PP_SelectModel ==
    /\ PanelReady
    /\ \E i \in 1..Len(panel.combo) :
          /\ i # panel.current
          /\ EmitSamParams([panel EXCEPT !.current = i], "model")
    /\ PanelOther

\* the user changes a spin box (valueChanged)
PP_ChangeSpin ==
    /\ PanelReady
    /\ \E name \in SpinNames : \E v \in SpinValues[name] :
          /\ v # panel.spin[name]
          /\ EmitSamParams([panel EXCEPT !.spin[name] = v], "other")
    /\ PanelOther

InitPanel ==
    /\ WorkerInit
    /\ MaskIdle
    /\ FillIdle
    /\ ContoursIdle
    /\ FnIdle
    /\ DxfIdle
    /\ ConverterIdle
    /\ PipelineIdle
    /\ DialogIdle
    /\ ScannerIdle
    /\ MvpIdle
    /\ mw = WindowInit
    /\ panel \in {PanelInit(<<GoodPath, MissingPath>>), PanelInit(<<"">>)}

NextPanel ==
    \/ PP_SelectModel
    \/ PP_ChangeSpin
    \/ UI_Load57 \/ UI_Load58 \/ UI_Load59 \/ UI_Load60
    \/ MW_Start
    \/ UI_Stop91 \/ UI_Stop92 \/ UI_Unlock
    \/ \E a \in Acts :
        \/ Run99(a) \/ EmitStarted(a) \/ Poll(a) \/ EmitProgress(a)
        \/ M_CheckFile(a) \/ M_FileMissing(a) \/ M_NewProcessor(a)
        \/ M_CheckDeps(a) \/ M_LoadModel(a) \/ M_Finish(a) \/ M_Failed(a)
    \/ MW_OnModelLoadStarted
    \/ MW_OnModelLoadProgress
    \/ MW_OnModelLoadFinished
    \/ DLG_ClickCancel
    \/ DLG_Close

SpecPanel == InitPanel /\ [][NextPanel]_vars

\* C29: a SAM parameter change starts a model load only when the selected
\* model path is non-empty and differs from the path of the model that is
\* loaded at that moment; in particular a change of another parameter while
\* a model is loaded starts no load.
C29_LoadOnlyForNewModel ==
    panel.made =>
        /\ panel.last.called =>
              /\ panel.last.model_path # ""
              /\ panel.last.model_path # panel.last.loaded_path
        /\ (panel.last.kind = "other" /\ panel.last.loaded) => ~panel.last.called


(***************************************************************************)
(* The model scanner (utils/model_scanner.py) and the model list of the    *)
(* property panel (ui/property_panel.py).                                  *)
(* A sample file is described by what the scanner asks of it: searched     *)
(* (it lies directly in one of search_paths), matches (its name matches    *)
(* one of SAM_MODEL_PATTERNS), type (what _analyze_model_file reads from   *)
(* the name, "" for None) and valid (size, extension and name tests of     *)
(* validate_model_file).  scanner.files holds the paths that exist,        *)
(* scanner.discovered_models the paths of the model_info records per type, *)
(* scanner.added the paths for which add_custom_model has returned True.   *)
(* panel.combo holds the item data of model_combo; panel.stale says that   *)
(* add_custom_model has succeeded since the list was last rebuilt.         *)
(* sam_params_changed has no receiver connected here.                      *)
(***************************************************************************)
ModelFileSeq ==
    << [path |-> "models/sam_vit_h_4b8939.pth", type |-> "vit_h",
        searched |-> TRUE, matches |-> TRUE, valid |-> TRUE],
       [path |-> "models/sam_vit_b_01ec64.pth", type |-> "vit_b",
        searched |-> TRUE, matches |-> TRUE, valid |-> TRUE],
       [path |-> "downloads/sam_vit_h_4b8939.pth", type |-> "vit_h",
        searched |-> FALSE, matches |-> TRUE, valid |-> TRUE],
       [path |-> "models/sam_vit_h.pth", type |-> "vit_h",
        searched |-> TRUE, matches |-> FALSE, valid |-> TRUE],
       [path |-> "downloads/weights.pth", type |-> "",
        searched |-> FALSE, matches |-> FALSE, valid |-> FALSE] >>

ModelFiles == {ModelFileSeq[i] : i \in 1..Len(ModelFileSeq)}
ModelTypes == {"vit_b", "vit_l", "vit_h"}

PathsOf(q) == {q[i] : i \in 1..Len(q)}

\* ModelScanner.scan_models on the files that exist
scan_models(files) ==
    [t \in ModelTypes |->
        LET found(f) == f.path \in files /\ f.searched /\ f.matches /\ f.type = t
            paths == [i \in 1..Len(ModelFileSeq) |-> ModelFileSeq[i].path]
            hit(p) == \E f \in ModelFiles : f.path = p /\ found(f)
        IN SelectSeq(paths, hit)]

\* ModelScanner.validate_model_file
validate_model_file(f, files) == f.path \in files /\ f.valid

\* ModelScanner.add_custom_model: <<discovered_models after, result>>
add_custom_model(dm, f, files) ==
    IF ~validate_model_file(f, files) THEN <<dm, FALSE>>
    ELSE IF f.type = "" THEN <<dm, FALSE>>
    ELSE IF f.path \in PathsOf(dm[f.type]) THEN <<dm, FALSE>>
    ELSE <<[dm EXCEPT ![f.type] = Append(@, f.path)], TRUE>>

\* PropertyPanel.refresh_model_list: the items of model_combo
ComboItems(dm) ==
    LET items == dm["vit_h"] \o dm["vit_l"] \o dm["vit_b"]
    IN IF items = <<>> THEN <<"">> ELSE items

IndexOf(q, x) == CHOOSE i \in 1..Len(q) : q[i] = x /\ \A j \in 1..(i - 1) : q[j] # x

ScannerOther ==
    UNCHANGED <<workerVars, maskVars, fillVars, contourVars, fnVars, dxfVars,
                converterVars, pl_pc, dlg, delivered, mw, mvp>>

\* a model file appears in or disappears from the file system
FS_Change ==
    /\ scanner.made
    /\ \E f \in ModelFiles :
          scanner' = [scanner EXCEPT
                        !.files = IF f.path \in @ THEN @ \ {f.path}
                                  ELSE @ \cup {f.path}]
    /\ UNCHANGED panel
    /\ ScannerOther

\* model_scanner.scan_models(), as called by SAMProcessor._find_checkpoint
SC_ScanModels ==
    /\ scanner.made
    /\ scanner' = [scanner EXCEPT !.discovered_models = scan_models(scanner.files)]
    /\ UNCHANGED panel
    /\ ScannerOther

\* SAMProcessor.add_custom_model(file_path) -> model_scanner.add_custom_model
SC_AddCustomModel ==
    /\ scanner.made
    /\ \E f \in ModelFiles :
          LET r == add_custom_model(scanner.discovered_models, f, scanner.files)
          IN /\ scanner' = [scanner EXCEPT
                              !.discovered_models = r[1],
                              !.added = IF r[2] THEN @ \cup {f.path} ELSE @]
             /\ panel' = [panel EXCEPT !.stale = @ \/ r[2]]
    /\ ScannerOther

\* PropertyPanel.refresh_model_list (the refresh button)
PP_RefreshModelList ==
    /\ scanner.made /\ panel.made
    /\ LET dm == scan_models(scanner.files)
       IN /\ scanner' = [scanner EXCEPT !.discovered_models = dm]
          /\ panel' = [panel EXCEPT !.combo = ComboItems(dm), !.current = 1,
                                    !.stale = FALSE]
    /\ ScannerOther

\* PropertyPanel.add_custom_model with the file chosen in the file dialog
PP_AddCustomModel ==
    /\ scanner.made /\ panel.made
    /\ \E f \in ModelFiles :
          /\ f.path \in scanner.files
          /\ LET r == add_custom_model(scanner.discovered_models, f, scanner.files)
                 dm == scan_models(scanner.files)
                 items == ComboItems(dm)
             IN IF validate_model_file(f, scanner.files) /\ r[2]
                THEN /\ scanner' = [scanner EXCEPT !.discovered_models = dm,
                                                   !.added = @ \cup {f.path}]
                     /\ panel' = [panel EXCEPT
                                    !.combo = items,
                                    !.current = IF f.path \in PathsOf(items)
                                                THEN IndexOf(items, f.path)
                                                ELSE 1,
                                    !.stale = FALSE]
                ELSE UNCHANGED <<scanner, panel>>
    /\ ScannerOther

AllFiles == {f.path : f \in ModelFiles}

\* ModelScanner.__init__ followed by PropertyPanel.__init__, whose init_ui
\* calls refresh_model_list
InitScanner ==
    /\ WorkerIdle
    /\ MaskIdle
    /\ FillIdle
    /\ ContoursIdle
    /\ FnIdle
    /\ DxfIdle
    /\ ConverterIdle
    /\ PipelineIdle
    /\ DialogIdle
    /\ WindowIdle
    /\ MvpIdle
    /\ scanner = [made |-> TRUE, files |-> AllFiles,
                  discovered_models |-> scan_models(AllFiles), added |-> {}]
    /\ panel = [made |-> TRUE, combo |-> ComboItems(scan_models(AllFiles)),
                current |-> 1, stale |-> FALSE]

NextScanner ==
    \/ FS_Change
    \/ SC_ScanModels
    \/ SC_AddCustomModel
    \/ PP_RefreshModelList
    \/ PP_AddCustomModel

SpecScanner == InitScanner /\ [][NextScanner]_vars

DiscoveredPaths == UNION {PathsOf(scanner.discovered_models[t]) : t \in ModelTypes}

NoRepeats(q) == \A i, j \in 1..Len(q) : q[i] = q[j] => i = j

\* C30: a model for which add_custom_model returned True (and whose file
\* still exists) stays in the scanner's discovered models through every later
\* scan_models / refresh_model_list and is in the panel's model list once
\* the list has been rebuilt, whether or not the file lies in a search path;
\* no path is listed twice for one model type.
C30_CustomModelsPersist ==
    scanner.made =>
        /\ \A p \in scanner.added \cap scanner.files :
              /\ p \in DiscoveredPaths
              /\ ~panel.stale => p \in PathsOf(panel.combo)
        /\ \A t \in ModelTypes : NoRepeats(scanner.discovered_models[t])
        /\ NoRepeats(panel.combo)

\* the second half of the statement alone: within one model type, and in the
\* combo box, no path occurs twice
C30_NoPathTwice ==
    scanner.made =>
        /\ \A t \in ModelTypes : NoRepeats(scanner.discovered_models[t])
        /\ NoRepeats(panel.combo)

=============================================================================
